---- MODULE Spec2Model ----
(***************************************************************************)
(* A model of snimpy's interface to libnetsnmp (snimpy/snmp.c): the        *)
(* Session object, the four operations get/getnext/getbulk/set (Snmp_op),  *)
(* the answer callback (Snmp_handle_answer) and the decoding of a          *)
(* response.  libnetsnmp itself is the environment: the pending-request    *)
(* list, retransmission and the callback protocol are modelled at the      *)
(* places where snmp.c calls into it.                                      *)
(***************************************************************************)
EXTENDS Integers, Sequences, FiniteSets, TLC

(***************************************************************************)
(* Bounds of the model.                                                    *)
(***************************************************************************)
\* number of requests one Session sends in a run
MaxOps == 2
\* largest value of the Session's retries setting
MaxRetries == 1
\* longest variable-binding list a peer returns
MaxVars == 5
\* largest error-status a peer returns (the table ends at 18)
MaxErrstat == 20

(***************************************************************************)
(* Constants of libnetsnmp that snmp.c names.                              *)
(***************************************************************************)
SNMP_VERSION_1 == 0
SNMP_VERSION_2c == 1
SNMP_VERSION_3 == 3
SNMP_DEFAULT_VERSION == -1

SNMP_MSG_GET == "SNMP_MSG_GET"
SNMP_MSG_GETNEXT == "SNMP_MSG_GETNEXT"
SNMP_MSG_GETBULK == "SNMP_MSG_GETBULK"
SNMP_MSG_SET == "SNMP_MSG_SET"
SNMP_MSG_RESPONSE == "SNMP_MSG_RESPONSE"
SNMP_MSG_REPORT == "SNMP_MSG_REPORT"

STAT_SUCCESS == "STAT_SUCCESS"
STAT_ERROR == "STAT_ERROR"
STAT_TIMEOUT == "STAT_TIMEOUT"

SNMPERR_SUCCESS == "SNMPERR_SUCCESS"
SNMPERR_TIMEOUT == "SNMPERR_TIMEOUT"
SNMPERR_ABORT == "SNMPERR_ABORT"
SNMPERR_PROTOCOL == "SNMPERR_PROTOCOL"
SNMPERR_BAD_SENDTO == "SNMPERR_BAD_SENDTO"
SNMPERR_BAD_SESSION == "SNMPERR_BAD_SESSION"

NETSNMP_CALLBACK_OP_RECEIVED_MESSAGE == "NETSNMP_CALLBACK_OP_RECEIVED_MESSAGE"
NETSNMP_CALLBACK_OP_TIMED_OUT == "NETSNMP_CALLBACK_OP_TIMED_OUT"
NETSNMP_CALLBACK_OP_DISCONNECT == "NETSNMP_CALLBACK_OP_DISCONNECT"
NETSNMP_CALLBACK_OP_SEND_FAILED == "NETSNMP_CALLBACK_OP_SEND_FAILED"

SNMP_ERR_NOERROR == 0
SNMP_ERR_TOOBIG == 1
SNMP_ERR_NOSUCHNAME == 2
SNMP_ERR_BADVALUE == 3
SNMP_ERR_READONLY == 4
SNMP_ERR_GENERR == 5
SNMP_ERR_NOACCESS == 6
SNMP_ERR_WRONGTYPE == 7
SNMP_ERR_WRONGLENGTH == 8
SNMP_ERR_WRONGENCODING == 9
SNMP_ERR_WRONGVALUE == 10
SNMP_ERR_NOCREATION == 11
SNMP_ERR_INCONSISTENTVALUE == 12
SNMP_ERR_RESOURCEUNAVAILABLE == 13
SNMP_ERR_COMMITFAILED == 14
SNMP_ERR_UNDOFAILED == 15
SNMP_ERR_AUTHORIZATIONERROR == 16
SNMP_ERR_NOTWRITABLE == 17
SNMP_ERR_INCONSISTENTNAME == 18

ASN_INTEGER == 2
ASN_OCTET_STR == 4
ASN_NULL == 5
ASN_OPAQUE == 68
SNMP_NOSUCHOBJECT == 128
SNMP_NOSUCHINSTANCE == 129
SNMP_ENDOFMIBVIEW == 130

MAX_OID_LEN == 128

\* the bulk settings a new Session starts with
DefaultBulkNonRepeaters == 0
DefaultBulkMaxRepetitions == 40

(***************************************************************************)
(* Python-level results of an operation: a returned tuple, or a raised     *)
(* exception (class, message, numeric argument of the message).            *)
(***************************************************************************)
Returned(vals) == [exc |-> "", msg |-> "", code |-> 0, vals |-> vals]
Raised(exc, msg, code) == [exc |-> exc, msg |-> msg, code |-> code, vals |-> <<>>]
NoResult == [exc |-> "-", msg |-> "", code |-> 0, vals |-> <<>>]

\* a slot of a tuple made by PyTuple_New and not set yet
NULLSLOT == [null |-> TRUE, oid |-> <<>>, value |-> 0]
PyTuple_Pack(resultoid, resultvalue) ==
    [null |-> FALSE, oid |-> resultoid, value |-> resultvalue]
PyTuple_New(n) == [i \in 1..n |-> NULLSLOT]

(***************************************************************************)
(* The table of error-status codes and the exception each raises.  The     *)
(* last entry, whose name is NULL, ends the table.                         *)
(***************************************************************************)
NULLNAME == "NULL"
SnmpErrorToException ==
    << [error |-> SNMP_ERR_TOOBIG, name |-> "SNMPTooBig"],
       [error |-> SNMP_ERR_NOSUCHNAME, name |-> "SNMPNoSuchName"],
       [error |-> SNMP_ERR_BADVALUE, name |-> "SNMPBadValue"],
       [error |-> SNMP_ERR_READONLY, name |-> "SNMPReadonly"],
       [error |-> SNMP_ERR_GENERR, name |-> "SNMPGenerr"],
       [error |-> SNMP_ERR_NOACCESS, name |-> "SNMPNoAccess"],
       [error |-> SNMP_ERR_WRONGTYPE, name |-> "SNMPWrongType"],
       [error |-> SNMP_ERR_WRONGLENGTH, name |-> "SNMPWrongLength"],
       [error |-> SNMP_ERR_WRONGENCODING, name |-> "SNMPWrongEncoding"],
       [error |-> SNMP_ERR_WRONGVALUE, name |-> "SNMPWrongValue"],
       [error |-> SNMP_ERR_NOCREATION, name |-> "SNMPNoCreation"],
       [error |-> SNMP_ERR_INCONSISTENTVALUE, name |-> "SNMPInconsistentValue"],
       [error |-> SNMP_ERR_RESOURCEUNAVAILABLE, name |-> "SNMPResourceUnavailable"],
       [error |-> SNMP_ERR_COMMITFAILED, name |-> "SNMPCommitFailed"],
       [error |-> SNMP_ERR_UNDOFAILED, name |-> "SNMPUndoFailed"],
       [error |-> SNMP_ERR_AUTHORIZATIONERROR, name |-> "SNMPAuthorizationError"],
       [error |-> SNMP_ERR_NOTWRITABLE, name |-> "SNMPNotWritable"],
       [error |-> SNMP_ERR_INCONSISTENTNAME, name |-> "SNMPInconsistentName"],
       [error |-> -1, name |-> NULLNAME] >>

\* the scan of the table from entry i, as the for loop of Snmp_op does it:
\* the exception of the first entry whose code is errstat, and the generic
\* exception with the raw code when the scan reaches the end of the table
\* (a scan that compares each entry with the status after errstat)
RECURSIVE SnmpErrorScanSkip(_, _)
SnmpErrorScanSkip(i, errstat) ==
    IF SnmpErrorToException[i].name = NULLNAME
    THEN Raised("SNMPException", "unknown error", errstat)
    ELSE IF SnmpErrorToException[i].error = errstat + 1
         THEN Raised(SnmpErrorToException[i].name, "snmp_errstring",
                     SnmpErrorToException[i].error)
         ELSE SnmpErrorScanSkip(i + 1, errstat)

RECURSIVE SnmpErrorScan(_, _)
SnmpErrorScan(i, errstat) ==
    IF SnmpErrorToException[i].name = NULLNAME
    THEN Raised("SNMPException", "unknown error", errstat)
    ELSE IF SnmpErrorToException[i].error = errstat
         THEN Raised(SnmpErrorToException[i].name, "snmp_errstring",
                     SnmpErrorToException[i].error)
         ELSE SnmpErrorScan(i + 1, errstat)

(***************************************************************************)
(* The state.                                                              *)
(***************************************************************************)
VARIABLES
    version,               \* sptr->version, set by Snmp_init
    retries,               \* sptr->retries
    bulk_non_repeaters,    \* self->bulk_non_repeaters
    bulk_max_repetitions,  \* self->bulk_max_repetitions
    s_snmp_errno,          \* the session's s_snmp_errno
    requests,              \* libnetsnmp's list of pending requests of the session
    wire,                  \* every transmission made: request-id, PDU, ordinal
    heap,                  \* the callback-data cells (struct synch_state **)
    th,                    \* each calling thread: its frame of Snmp_op
    calls,                 \* how many calls of Snmp_op allocated callback data
    done,                  \* the calls that sent a request and have returned
    fault,                 \* a memory error made so far: none, "uaf" or "crash"
    ans,                   \* the answer being handled (lines 538-676)
    counter64,             \* a Counter64 value being decoded (lines 625-635)
    object,                \* a Session object under construction (Snmp_init)
    setter,                \* the timeout of the session and the last call of
                           \* Snmp_settimeout or Snmp_setretries
    bulkset,               \* the bulk settings as unsigned ints and the last
                           \* call of Snmp_setbulksettings
    getranges              \* a call of entity_getranges of the MIB module

vars == << version, retries, bulk_non_repeaters, bulk_max_repetitions,
           s_snmp_errno, requests, wire, heap, th, calls, done, fault, ans,
           counter64, object, setter, bulkset, getranges >>

\* the variables of the session, and those of the parts modelled apart from it
rest == << bulkset, getranges >>
session == << version, retries, bulk_non_repeaters, bulk_max_repetitions,
              s_snmp_errno, requests, wire, heap, th, calls, done, fault >>

apart == << counter64, object, setter, rest >>

(***************************************************************************)
(* Handling the answer: Snmp_op from "response = state.pdu" to its return. *)
(* An answer is handled one step at a time: the checks before the loop,    *)
(* then one step for each iteration of the do-while loop.                  *)
(***************************************************************************)
NULLPDU == [null |-> TRUE, command |-> "", errstat |-> 0, variables |-> <<>>]
Pdu(command, errstat, variables) ==
    [null |-> FALSE, command |-> command, errstat |-> errstat,
     variables |-> variables]

NoAnswer ==
    [phase |-> "none", op |-> "", nargs |-> 0, status |-> "", errno |-> "",
     response |-> NULLPDU, j |-> 0, vars |-> 0, results |-> <<>>,
     freed |-> 0, ret |-> NoResult]

\* the locals of Snmp_op when the wait loop has ended
AnswerStart(op, nargs, status, errno, response) ==
    [phase |-> "answer", op |-> op, nargs |-> nargs, status |-> status,
     errno |-> errno, response |-> response, j |-> 0, vars |-> 0,
     results |-> <<>>, freed |-> 0, ret |-> NoResult]

\* Snmp_raise_error(self->ss, 0): the exception made from the session's error
Snmp_raise_error(errno) == Raised("SNMPException", errno, 0)

\* the operror label: the partial results are dropped, the response freed
operror(a, exception) ==
    [a EXCEPT !.phase = "done", !.ret = exception, !.results = <<>>,
              !.j = 0, !.vars = 0,
              !.freed = IF a.response.null THEN a.freed ELSE a.freed + 1]

\* how many slots the result tuple gets
ResultSlots(op, nargs, max_repetitions) ==
    IF op = SNMP_MSG_GETBULK
    THEN max_repetitions
    ELSE nargs \div (IF op = SNMP_MSG_SET THEN 2 ELSE 1)

\* the checks between the wait loop and the decoding loop
AnswerChecks(a, max_repetitions) ==
    IF a.status # STAT_SUCCESS
    THEN operror(a, Snmp_raise_error(a.errno))
    ELSE IF a.response.errstat # SNMP_ERR_NOERROR
    THEN operror(a, SnmpErrorScan(1, a.response.errstat))
    ELSE IF a.response.variables = <<>>
    THEN operror(a, Raised("SNMPException", "answer is empty?", 0))
    ELSE [a EXCEPT !.phase = "loop", !.j = 0, !.vars = 1,
                   !.results = PyTuple_New(ResultSlots(a.op, a.nargs,
                                                       max_repetitions))]

\* the Python value made from a binding of a recognised type
resultvalue(v) == v.val

\* (a switch that makes a value of every type that is not a sentinel)
IsValueTypeAny(type) ==
    type \notin {SNMP_NOSUCHOBJECT, SNMP_NOSUCHINSTANCE, SNMP_ENDOFMIBVIEW}

IsValueType(type) == type \in {ASN_INTEGER, ASN_OCTET_STR}

\* (the cases of the switch with the first two exceptions exchanged)
TypeExceptionSwapped(type) ==
    IF type = SNMP_NOSUCHOBJECT
    THEN Raised("SNMPNoSuchInstance", "No such instance exists", 0)
    ELSE IF type = SNMP_NOSUCHINSTANCE
    THEN Raised("SNMPNoSuchObject", "No such object was found", 0)
    ELSE IF type = SNMP_ENDOFMIBVIEW
    THEN Raised("SNMPEndOfMibView", "End of MIB was reached", 0)
    ELSE Raised("SNMPException", "unknown type returned", type)

\* the exception a binding raises for its type, when it raises one
TypeException(type) ==
    IF type = SNMP_NOSUCHOBJECT
    THEN Raised("SNMPNoSuchObject", "No such object was found", 0)
    ELSE IF type = SNMP_NOSUCHINSTANCE
    THEN Raised("SNMPNoSuchInstance", "No such instance exists", 0)
    ELSE IF type = SNMP_ENDOFMIBVIEW
    THEN Raised("SNMPEndOfMibView", "End of MIB was reached", 0)
    ELSE Raised("SNMPException", "unknown type returned", type)

\* one iteration of the do-while loop over the bindings of the response
DecodeVar(a) ==
    LET j == a.j + 1
        v == a.response.variables[a.vars]
    IN  IF j > Len(a.results)
        THEN operror(a, Raised("SNMPException", "Received too many answers", 0))
        ELSE IF ~IsValueType(v.type)
        THEN operror(a, TypeException(v.type))
        ELSE LET results ==
                   [a.results EXCEPT ![j] = PyTuple_Pack(v.name, resultvalue(v))]
             IN  IF a.vars < Len(a.response.variables)
                 THEN [a EXCEPT !.j = j, !.vars = a.vars + 1,
                                !.results = results]
                 ELSE [a EXCEPT !.phase = "done", !.j = 0, !.vars = 0,
                                !.results = <<>>, !.freed = a.freed + 1,
                                !.ret = Returned(results)]

AnswerStep(a, max_repetitions) ==
    IF a.phase = "answer" THEN AnswerChecks(a, max_repetitions)
    ELSE IF a.phase = "loop" THEN DecodeVar(a)
    ELSE a

\* the whole handling of an answer, to the return of Snmp_op
RECURSIVE AnswerRun(_, _)
AnswerRun(a, max_repetitions) ==
    IF a.phase = "done" THEN a
    ELSE AnswerRun(AnswerStep(a, max_repetitions), max_repetitions)

(***************************************************************************)
(* Snmp_new and Snmp_init: the construction of a Session object.  An       *)
(* argument is "none" (absent or None), "other" (not of the type the       *)
(* conversion wants) or a value of the right type.                         *)
(***************************************************************************)
\* the steps of Snmp_init that can fail, in the order of the code
InitSteps ==
    << "host", "version", "community", "seclevel", "secname", "authprotocol",
       "authpassword", "privprotocol", "privpassword", "peername", "open" >>

\* the protocol a protocol argument selects in the session, or "NULL"
securityAuthProto(a) ==
    IF a.authprotocol \in {"MD5", "SHA"} THEN a.authprotocol ELSE "NULL"
securityPrivProto(a) ==
    IF a.privprotocol \in {"DES", "AES", "AES128"} THEN a.privprotocol
    ELSE "NULL"

\* (the test of the privacy password that wants the privacy protocol only)
PrivPasswordNeedsPrivOnly(a) == securityPrivProto(a) = "NULL"

\* the test made when a privacy password is given
PrivPasswordNeeds(a) ==
    securityPrivProto(a) = "NULL" \/ securityAuthProto(a) = "NULL"

\* the exception step `step` raises for the arguments a when the library
\* call `fail` fails, and "" when the step passes; label says where the
\* step leaves Snmp_init ("return", "initerror", "initoutofmem")
Pass == [exc |-> "", msg |-> "", label |-> ""]
Fail(exc, msg, label) == [exc |-> exc, msg |-> msg, label |-> label]

StringStep(arg, step, fail) ==
    IF arg = "none" THEN Pass
    ELSE IF arg = "other" THEN Fail("TypeError", "", "initerror")
    ELSE IF fail = step THEN Fail("MemoryError", "", "initoutofmem")
    ELSE Pass

InitStep(step, a, fail) ==
    CASE step = "host" ->
           IF a.host = "other" THEN Fail("TypeError", "", "return") ELSE Pass
      [] step = "version" ->
           IF a.version \notin {1, 2, 3, SNMP_DEFAULT_VERSION}
           THEN Fail("ValueError", "invalid SNMP version", "return")
           ELSE Pass
      [] step = "community" -> StringStep(a.community, step, fail)
      [] step = "seclevel" ->
           IF a.seclevel = "other" THEN Fail("TypeError", "", "initerror")
           ELSE Pass
      [] step = "secname" -> StringStep(a.secname, step, fail)
      [] step = "authprotocol" ->
           IF a.authprotocol = "none" THEN Pass
           ELSE IF a.authprotocol = "other"
           THEN Fail("TypeError", "", "initerror")
           ELSE IF securityAuthProto(a) = "NULL"
           THEN Fail("ValueError", "invalid authentication protocol",
                     "initerror")
           ELSE Pass
      [] step = "authpassword" ->
           IF a.authpassword = "none" THEN Pass
           ELSE IF a.authpassword = "other"
           THEN Fail("TypeError", "", "initerror")
           ELSE IF securityAuthProto(a) = "NULL"
           THEN Fail("ValueError",
                     "can't set an auth password without an auth protocol",
                     "initerror")
           ELSE IF fail = step
           THEN Fail("ValueError",
                     "unable to compute the master key from auth password",
                     "initerror")
           ELSE Pass
      [] step = "privprotocol" ->
           IF a.privprotocol = "none" THEN Pass
           ELSE IF a.privprotocol = "other"
           THEN Fail("TypeError", "", "initerror")
           ELSE IF securityPrivProto(a) = "NULL"
           THEN Fail("ValueError", "invalid privacy protocol", "initerror")
           ELSE Pass
      [] step = "privpassword" ->
           IF a.privpassword = "none" THEN Pass
           ELSE IF a.privpassword = "other"
           THEN Fail("TypeError", "", "initerror")
           ELSE IF PrivPasswordNeeds(a)
           THEN Fail("ValueError",
                     "can't set a privacy password without a auth+privacy protocol",
                     "initerror")
           ELSE IF fail = step
           THEN Fail("ValueError",
                     "unable to compute the master key from privacy password",
                     "initerror")
           ELSE Pass
      [] step = "peername" ->
           IF fail = step THEN Fail("MemoryError", "", "initoutofmem")
           ELSE Pass
      [] step = "open" ->
           IF fail = step THEN Fail("SNMPException", "snmp_error", "initerror")
           ELSE Pass

\* the first step of InitSteps from i on that fails, or Len(InitSteps) + 1
RECURSIVE FirstFailure(_, _, _)
FirstFailure(i, a, fail) ==
    IF i > Len(InitSteps) THEN i
    ELSE IF InitStep(InitSteps[i], a, fail).exc # "" THEN i
    ELSE FirstFailure(i + 1, a, fail)

\* the string buffers Snmp_init has duplicated when it stops at step k
Duplicated(a, k) ==
    {InitSteps[i] : i \in {j \in 1..(k - 1) :
        \/ InitSteps[j] = "peername"
        \/ InitSteps[j] = "community" /\ a.community = "str"
        \/ InitSteps[j] = "secname" /\ a.secname = "str"}}

\* (a cleanup that forgets the peer name)
InitErrorKeepsPeer(bufs) == bufs \ {"peername"}

\* the buffers the label initerror releases among those duplicated
InitError(bufs) == bufs

\* the object before Snmp_new, and as Snmp_new leaves it
NoObject ==
    [phase |-> "none", args |-> << >>, fail |-> "", ret |-> 0, exc |-> "",
     msg |-> "", ss |-> "NULL", opened |-> FALSE, duplicated |-> {},
     freed |-> {}]
Snmp_new == [NoObject EXCEPT !.phase = "new"]

\* Snmp_init with the arguments a when the library call `fail` fails
Snmp_init(a, fail) ==
    LET k == FirstFailure(1, a, fail)
        out == IF k > Len(InitSteps) THEN Pass
               ELSE InitStep(InitSteps[k], a, fail)
        bufs == Duplicated(a, k)
    IN  [phase |-> "done", args |-> a, fail |-> fail,
         ret |-> IF out.exc = "" THEN 0 ELSE -1,
         exc |-> out.exc, msg |-> out.msg,
         ss |-> IF out.exc = "" THEN "open" ELSE "NULL",
         opened |-> k > Len(InitSteps) \/ InitSteps[k] = "open",
         duplicated |-> bufs,
         freed |-> IF out.label \in {"initerror", "initoutofmem"}
                   THEN InitError(bufs) ELSE {}]

(***************************************************************************)
(* Snmp_settimeout and Snmp_setretries.  A C long is a sequence of four    *)
(* 16-bit digits in two's complement, lowest digit first, and so is the    *)
(* value of a Python integer; where long has 32 bits (build = 2 digits) a  *)
(* long holds the values that are the sign extension of their two lower    *)
(* digits.  A Python int object holds a C long; a Python long object holds *)
(* any integer (huge: one beyond 64 bits).                                 *)
(***************************************************************************)
Digit == 2 ^ 16
MaxDigit == 65535
HalfDigit == 32768

Negative(d) == d[4] >= HalfDigit
Positive(d) == ~Negative(d) /\ d # << 0, 0, 0, 0 >>
Fits32(d) ==
    \/ d[3] = 0 /\ d[4] = 0 /\ d[2] < HalfDigit
    \/ d[3] = MaxDigit /\ d[4] = MaxDigit /\ d[2] >= HalfDigit
FitsLong(d, build) == build = 4 \/ Fits32(d)

\* the conversion of a long to int: its two lower digits
ToInt(d) == << d[1], d[2] >>
IntNegative(i) == i[2] >= HalfDigit
\* the number a non-negative int stands for
IntValue(i) == i[1] + i[2] * Digit

PyNULL == [type |-> "NULL", long |-> << 0, 0, 0, 0 >>, huge |-> FALSE]
PyInt(d) == [type |-> "int", long |-> d, huge |-> FALSE]
PyLong(d) == [type |-> "long", long |-> d, huge |-> FALSE]
PyHuge == [type |-> "long", long |-> << 0, 0, 0, 0 >>, huge |-> TRUE]
PyString == [type |-> "str", long |-> << 0, 0, 0, 0 >>, huge |-> FALSE]

\* the timeout snmp_sess_open leaves in the session: 1000000 microseconds
DefaultTimeout == << 16960, 15, 0, 0 >>

NoSetter ==
    [build |-> 4, timeout |-> DefaultTimeout, attr |-> "", value |-> PyNULL,
     ret |-> 0, exc |-> "", msg |-> "",
     old |-> [retries |-> 0, timeout |-> DefaultTimeout]]

\* what a setter returns: ret, the exception, and the value it stores
Refused(exc, msg) == [ret |-> -1, exc |-> exc, msg |-> msg, stored |-> << >>]
Stored(v) == [ret |-> 0, exc |-> "", msg |-> "", stored |-> v]

Snmp_settimeout(value, build) ==
    IF value.type = "NULL"
    THEN Refused("TypeError", "cannot delete timeout")
    ELSE IF value.type \notin {"int", "long"}
    THEN Refused("TypeError", "timeout is a positive integer")
    ELSE IF value.huge \/ ~FitsLong(value.long, build)
    THEN Refused("OverflowError", "")
    ELSE IF ~Positive(value.long)
    THEN Refused("ValueError", "timeout is a positive integer")
    ELSE Stored(value.long)

Snmp_setretries(value, build) ==
    IF value.type = "NULL"
    THEN Refused("TypeError", "cannot delete retries")
    ELSE IF value.type # "int"
    THEN Refused("TypeError", "retries is a non-negative integer")
    ELSE IF IntNegative(ToInt(value.long))
    THEN Refused("ValueError", "retries is a non-negative integer")
    ELSE Stored(IntValue(ToInt(value.long)))

(***************************************************************************)
(* entity_getranges of the MIB module (mib.c).  The type of an entity has  *)
(* a list of ranges, each with a minimum and a maximum SmiValue; a range   *)
(* is named by its place in the list, and 0 is the NULL that               *)
(* smiGetFirstRange and smiGetNextRange return past the last one.          *)
(***************************************************************************)
SMI_BASETYPE_INTEGER32 == "SMI_BASETYPE_INTEGER32"
SMI_BASETYPE_UNSIGNED32 == "SMI_BASETYPE_UNSIGNED32"
SMI_BASETYPE_INTEGER64 == "SMI_BASETYPE_INTEGER64"
SMI_BASETYPE_UNSIGNED64 == "SMI_BASETYPE_UNSIGNED64"
SMI_BASETYPE_OCTETSTRING == "SMI_BASETYPE_OCTETSTRING"

SmiValue(basetype, value) == [basetype |-> basetype, value |-> value]
SmiRange(minValue, maxValue) == [minValue |-> minValue, maxValue |-> maxValue]

\* an entity: whether it has a node, whether the node has a type, and the
\* ranges of the type
Entity(node, type, ranges) == [node |-> node, type |-> type, ranges |-> ranges]
NoEntity == Entity(FALSE, FALSE, << >>)

smiGetFirstRange(e) == IF Len(e.ranges) = 0 THEN 0 ELSE 1
smiGetNextRange(e, range) == IF range < Len(e.ranges) THEN range + 1 ELSE 0

\* the objects built for the bounds: NULL, an int and a long
NoCur == [type |-> "NULL", val |-> 0]
PyInt_FromLong(v) == [type |-> "int", val |-> v]
PyLong_FromUnsignedLong(v) == [type |-> "long", val |-> v]
PyLong_FromLongLong(v) == [type |-> "long", val |-> v]
PyLong_FromUnsignedLongLong(v) == [type |-> "long", val |-> v]

\* the switch on value->basetype
RangeBound(value) ==
    IF value.basetype = SMI_BASETYPE_INTEGER32
    THEN PyInt_FromLong(value.value)
    ELSE IF value.basetype = SMI_BASETYPE_UNSIGNED32
    THEN PyLong_FromUnsignedLong(value.value)
    ELSE IF value.basetype = SMI_BASETYPE_INTEGER64
    THEN PyLong_FromLongLong(value.value)
    ELSE IF value.basetype = SMI_BASETYPE_UNSIGNED64
    THEN PyLong_FromUnsignedLongLong(value.value)
    ELSE NoCur

\* PyObject_Cmp of two integer objects: by value, an int and a long alike
PyObject_Cmp(min, max) ==
    IF min.val < max.val THEN -1 ELSE IF min.val > max.val THEN 1 ELSE 0

\* what is appended for a range: the pair, or the one value when both
\* bounds are equal
Couple(min, max) ==
    IF PyObject_Cmp(min, max) # 0
    THEN [type |-> "tuple", items |-> << min, max >>]
    ELSE min

Py_None == [type |-> "None"]

\* what is returned once the loop has ended
RangesResult(list) ==
    IF Len(list) <= 0 THEN Py_None
    ELSE IF Len(list) = 1 THEN list[1]
    ELSE [type |-> "list", items |-> list]

NoRanges ==
    [pc |-> "idle", entity |-> NoEntity, range |-> 0, list |-> << >>,
     ret |-> NoCur]

\* the call, up to the test of the loop
entity_getranges(g) ==
    IF ~g.entity.node \/ ~g.entity.type \/ smiGetFirstRange(g.entity) = 0
    THEN [g EXCEPT !.pc = "done", !.ret = Py_None]
    ELSE [g EXCEPT !.pc = "loop", !.range = smiGetFirstRange(g.entity),
                   !.list = << >>]

\* one turn of while (range), and the return when the loop ends with it
RangeTurn(g) ==
    LET r == g.entity.ranges[g.range]
        min == RangeBound(r.minValue)
        max == RangeBound(r.maxValue)
        list == Append(g.list, Couple(min, max))
        next == smiGetNextRange(g.entity, g.range)
    IN  IF min = NoCur \/ max = NoCur
        THEN \* continue: back to the test, with the same range
             g
        ELSE IF next # 0
        THEN [g EXCEPT !.range = next, !.list = list]
        ELSE [g EXCEPT !.pc = "done", !.range = 0, !.list = list,
                       !.ret = RangesResult(list)]

(***************************************************************************)
(* Snmp_setbulksettings.  The two fields are unsigned ints: two 16-bit     *)
(* digits, lowest first.                                                   *)
(***************************************************************************)
PyTuple(items) == [type |-> "tuple", items |-> items]
PyNoTuple(type) == [type |-> type, items |-> << >>]

\* (unsigned int)PyInt_AsLong(item): the two lower digits of the long, and
\* those of -1, with an exception set, for an item that is not an integer
AsUnsigned(item) ==
    IF item.type = "int" THEN ToInt(item.long) ELSE << MaxDigit, MaxDigit >>

UDefault(n) == << n, 0 >>

NoBulkset ==
    [non_repeaters |-> UDefault(DefaultBulkNonRepeaters),
     max_repetitions |-> UDefault(DefaultBulkMaxRepetitions),
     called |-> FALSE, settings |-> PyNoTuple("NULL"), ret |-> 0, exc |-> "",
     crashed |-> FALSE,
     old |-> [non_repeaters |-> UDefault(DefaultBulkNonRepeaters),
              max_repetitions |-> UDefault(DefaultBulkMaxRepetitions)]]

\* the parts added last are not in use
RestIdle == bulkset = NoBulkset /\ getranges = NoRanges

\* Snmp_setbulksettings on the bulk settings b.  A deletion passes NULL to
\* PyTuple_Size, which reads the type of its argument: the process ends.
\* For an item that is not an integer 0 is returned with the exception of
\* PyInt_AsLong left set.
Snmp_setbulksettings(b, settings) ==
    LET c == [b EXCEPT !.called = TRUE, !.settings = settings,
                       !.old = [non_repeaters |-> b.non_repeaters,
                                max_repetitions |-> b.max_repetitions]]
    IN  IF settings.type = "NULL"
        THEN [c EXCEPT !.crashed = TRUE, !.ret = 0, !.exc = ""]
        ELSE IF settings.type # "tuple" \/ Len(settings.items) # 2
        THEN [c EXCEPT !.ret = -1, !.exc = "TypeError"]
        ELSE [c EXCEPT
                !.non_repeaters = AsUnsigned(settings.items[1]),
                !.max_repetitions = AsUnsigned(settings.items[2]),
                !.ret = 0,
                !.exc = IF \E i \in 1..2 : settings.items[i].type # "int"
                        THEN "TypeError" ELSE ""]

(***************************************************************************)
(* The case ASN_COUNTER64 of the decoding switch.  An unsigned integer is  *)
(* the sequence of its 16-bit digits, the least significant first: two     *)
(* digits for a 32-bit half, four for an unsigned long long.               *)
(***************************************************************************)

\* (unsigned long long) of a 32-bit half: the upper digits are zero
ToULL(half) == << half[1], half[2], 0, 0 >>

\* x << 32 in 64 bits: two digits up, the two upper digits are lost
ShiftLeft32(x) == << 0, 0, x[1], x[2] >>

\* x + y in 64 bits: the carry out of the last digit is lost
Add64(x, y) ==
    LET s1 == x[1] + y[1]
        s2 == x[2] + y[2] + (s1 \div Digit)
        s3 == x[3] + y[3] + (s2 \div Digit)
        s4 == x[4] + y[4] + (s3 \div Digit)
    IN  << s1 % Digit, s2 % Digit, s3 % Digit, s4 % Digit >>

\* (the halves combined with high used in the place of low)
Counter64HighTwice(high, low) ==
    Add64(ShiftLeft32(ToULL(high)), ToULL(high))

\* the Python integer made of the two halves: the sum is stored in a long
\* long and read back as an unsigned long long, which keeps its 64 bits
Counter64(high, low) ==
    Add64(ShiftLeft32(ToULL(high)), ToULL(low))

NoCounter64 == [phase |-> "none", high |-> <<0, 0>>, low |-> <<0, 0>>,
                resultvalue |-> <<>>]

\* the parts modelled apart from the session are not in use
ApartIdle ==
    /\ counter64 = NoCounter64 /\ object = NoObject /\ setter = NoSetter
    /\ RestIdle

\* the digits the halves are made of, and the halves
Digits == {0, 1, Digit \div 2, Digit - 1}
Halves == {<< a, b >> : a \in Digits, b \in Digits}

InitCounter64 ==
    \E high \in Halves, low \in Halves :
        /\ counter64 = [phase |-> "wire", high |-> high, low |-> low,
                        resultvalue |-> <<>>]
        /\ object = NoObject
        /\ setter = NoSetter
        /\ RestIdle

DecodeCounter64 ==
    /\ counter64.phase = "wire"
    /\ counter64' = [counter64 EXCEPT
                        !.phase = "done",
                        !.resultvalue = Counter64(counter64.high, counter64.low)]
    /\ UNCHANGED << object, setter, rest >>

(***************************************************************************)
(* The arguments of a call: Python objects, as far as tuple2oid and        *)
(* Snmp_convert_object tell them apart.                                    *)
(***************************************************************************)
\* ints: every element is a Python integer; neg: one of them is negative
PyOid(id, len) ==
    [kind |-> "tuple", id |-> id, len |-> len, ints |-> TRUE, neg |-> FALSE]
PyBadOid(len) ==
    [kind |-> "tuple", id |-> 0, len |-> len, ints |-> FALSE, neg |-> FALSE]
PyNegOid(len) ==
    [kind |-> "tuple", id |-> 0, len |-> len, ints |-> TRUE, neg |-> TRUE]
PyValue ==
    [kind |-> "basictype", id |-> 0, len |-> 0, ints |-> FALSE, neg |-> FALSE]
PyStr == [kind |-> "str", id |-> 0, len |-> 0, ints |-> FALSE, neg |-> FALSE]

\* tuple2oid: 0, or -1 with the exception it sets; the conversion of an
\* element (PyLong_AsUnsignedLong, PyInt_AsLong) is not tested, so that a
\* negative element is stored as an unsigned sub-identifier and 0 returned
tuple2oid(tuple) ==
    IF tuple.kind # "tuple"
    THEN Raised("TypeError", "OID should be a tuple of integers", 0)
    ELSE IF tuple.len > MAX_OID_LEN
    THEN Raised("ValueError", "OID is too large", tuple.len)
    ELSE IF ~tuple.ints
    THEN Raised("TypeError", "element of OID is not an integer", 0)
    ELSE Returned(<<>>)

\* Snmp_convert_object: a buffer, or NULL with the exception it sets
Snmp_convert_object(obj) ==
    IF obj.kind # "basictype"
    THEN Raised("SNMPException", "can only set basictypes", 0)
    ELSE Returned(<<>>)

\* the while loop that adds the arguments to the PDU, from argument j on:
\* the exception of the first argument that fails, or no exception
RECURSIVE AddArguments(_, _, _)
AddArguments(op, args, j) ==
    IF j > Len(args) THEN Returned(<<>>)
    ELSE IF tuple2oid(args[j]).exc # ""
    THEN tuple2oid(args[j])
    ELSE IF op # SNMP_MSG_SET
    THEN AddArguments(op, args, j + 1)
    ELSE IF j + 1 > Len(args)
    THEN Raised("IndexError", "tuple index out of range", 0)
    ELSE IF Snmp_convert_object(args[j + 1]).exc # ""
    THEN Snmp_convert_object(args[j + 1])
    ELSE AddArguments(op, args, j + 2)

\* the values the while loop assigns to the variable `buffer`, in order,
\* from argument j on: the buffer Snmp_convert_object allocates for the
\* value at place j + 1 (named by its place), or 0 (NULL) when it fails
RECURSIVE BufferAssignments(_, _, _)
BufferAssignments(op, args, j) ==
    IF op # SNMP_MSG_SET \/ j + 1 > Len(args) THEN << >>
    ELSE IF tuple2oid(args[j]).exc # "" THEN << >>
    ELSE IF Snmp_convert_object(args[j + 1]).exc # "" THEN << 0 >>
    ELSE << j + 1 >> \o BufferAssignments(op, args, j + 2)

\* the value buffers the loop has allocated
ValueBuffers(op, args) ==
    LET seq == BufferAssignments(op, args, 1)
    IN  {seq[i] : i \in 1..Len(seq)} \ {0}

\* free(buffer) at the label operror: the variable holds what was assigned
\* to it last (NULL before the first assignment), and free(NULL) frees nothing
FreeBuffer(op, args) ==
    LET seq == BufferAssignments(op, args, 1)
    IN  IF seq = << >> THEN {} ELSE {seq[Len(seq)]} \ {0}

\* the three checks Snmp_op makes before it creates the PDU
\* (the arity test with the parity inverted)
ArityCheckOdd(op, args) == op = SNMP_MSG_SET /\ Len(args) % 2 # 1
ArityCheck(op, args) == op = SNMP_MSG_SET /\ Len(args) % 2 # 0

\* (the getbulk test without the version)
BulkCheckAny(op, v) == op = SNMP_MSG_GETBULK
BulkCheck(op, v) == op = SNMP_MSG_GETBULK /\ v = SNMP_VERSION_1

ArgumentChecks(op, args, v) ==
    IF Len(args) < 1
    THEN Raised("TypeError", "not enough arguments", 0)
    ELSE IF ArityCheck(op, args)
    THEN Raised("TypeError",
                "need an even number of arguments for SET operation", 0)
    ELSE IF BulkCheck(op, v)
    THEN Raised("SNMPException", "getbulk not supported in SNMPv1", 0)
    ELSE Returned(<<>>)

(***************************************************************************)
(* Threads, callback data and the library's pending requests.              *)
(***************************************************************************)
Threads == {1, 2}
Cells == 1..MaxOps
Ops == {SNMP_MSG_GET, SNMP_MSG_GETNEXT, SNMP_MSG_GETBULK, SNMP_MSG_SET}

\* the frame of Snmp_op of a thread that is not in a call; op, args, reqid,
\* built, sent, ended, endreq and result keep what the last call did, cloned
\* counts the responses snmp_clone_pdu copied into its state.pdu and freed
\* the calls of snmp_free_pdu(response) it made
IdleFrame ==
    [pc |-> "idle", op |-> "", args |-> <<>>, reqid |-> 0, hstate |-> 0,
     waiting |-> FALSE, status |-> STAT_SUCCESS, pdu |-> NULLPDU,
     built |-> FALSE, sent |-> FALSE, ended |-> "", endreq |-> 0,
     result |-> NoResult, cloned |-> 0, freed |-> 0]

FreeCell == [live |-> FALSE, ptr |-> 0]

Pending(r) == {rq \in requests : rq.reqid = r}

\* what snmp_sess_timeout transmits for an expired request with retries left:
\* the PDU the request holds, under the request's id
Retransmission(rq) ==
    [reqid |-> rq.reqid, pdu |-> rq.pdu, n |-> rq.retries + 1]

\* whether an expired request is given up (no retry left)
\* (giving up one expiry early, and one expiry late)
GivenUpEarly(rq, sessretries) == rq.retries + 1 >= sessretries
GivenUpLate(rq, sessretries) == rq.retries > sessretries
GivenUp(rq, sessretries) == rq.retries >= sessretries

(***************************************************************************)
(* Snmp_handle_answer, called by the library with callback data `magic`    *)
(* whose cell is allocated.  h, T and errno are the heap, the frames and   *)
(* the session's error; the result holds what they become and the value    *)
(* returned.                                                               *)
(***************************************************************************)
\* (the outcomes of the time-out and of the disconnect exchanged)
AnswerOutcomeSwapped(cbop, pdu) ==
    IF cbop = NETSNMP_CALLBACK_OP_RECEIVED_MESSAGE /\ ~pdu.null
       /\ pdu.command = SNMP_MSG_RESPONSE
    THEN [pdu |-> pdu, status |-> STAT_SUCCESS, errno |-> SNMPERR_SUCCESS,
          ret |-> 1]
    ELSE IF cbop = NETSNMP_CALLBACK_OP_TIMED_OUT
    THEN [pdu |-> NULLPDU, status |-> STAT_ERROR, errno |-> SNMPERR_ABORT,
          ret |-> 1]
    ELSE IF cbop = NETSNMP_CALLBACK_OP_DISCONNECT
    THEN [pdu |-> NULLPDU, status |-> STAT_TIMEOUT, errno |-> SNMPERR_TIMEOUT,
          ret |-> 1]
    ELSE [pdu |-> NULLPDU, status |-> STAT_ERROR, errno |-> SNMPERR_PROTOCOL,
          ret |-> 0]

\* (every received message taken for a response, whatever its command)
AnswerOutcomeLenient(cbop, pdu) ==
    IF cbop = NETSNMP_CALLBACK_OP_RECEIVED_MESSAGE /\ ~pdu.null
    THEN [pdu |-> pdu, status |-> STAT_SUCCESS, errno |-> SNMPERR_SUCCESS,
          ret |-> 1]
    ELSE IF cbop = NETSNMP_CALLBACK_OP_TIMED_OUT
    THEN [pdu |-> NULLPDU, status |-> STAT_TIMEOUT, errno |-> SNMPERR_TIMEOUT,
          ret |-> 1]
    ELSE IF cbop = NETSNMP_CALLBACK_OP_DISCONNECT
    THEN [pdu |-> NULLPDU, status |-> STAT_ERROR, errno |-> SNMPERR_ABORT,
          ret |-> 1]
    ELSE [pdu |-> NULLPDU, status |-> STAT_ERROR, errno |-> SNMPERR_PROTOCOL,
          ret |-> 0]

\* the state the three handled events and the unexpected ones leave
AnswerOutcome(cbop, pdu) ==
    IF cbop = NETSNMP_CALLBACK_OP_RECEIVED_MESSAGE /\ ~pdu.null
       /\ pdu.command = SNMP_MSG_RESPONSE
    THEN [pdu |-> pdu, status |-> STAT_SUCCESS, errno |-> SNMPERR_SUCCESS,
          ret |-> 1]
    ELSE IF cbop = NETSNMP_CALLBACK_OP_TIMED_OUT
    THEN [pdu |-> NULLPDU, status |-> STAT_TIMEOUT, errno |-> SNMPERR_TIMEOUT,
          ret |-> 1]
    ELSE IF cbop = NETSNMP_CALLBACK_OP_DISCONNECT
    THEN [pdu |-> NULLPDU, status |-> STAT_ERROR, errno |-> SNMPERR_ABORT,
          ret |-> 1]
    ELSE [pdu |-> NULLPDU, status |-> STAT_ERROR, errno |-> SNMPERR_PROTOCOL,
          ret |-> 0]

Snmp_handle_answer(cbop, reqid, pdu, magic, h, T, errno) ==
    LET u == h[magic].ptr
        o == AnswerOutcome(cbop, pdu)
        freed == [h EXCEPT ![magic].live = FALSE]
    IN  IF u = 0
        THEN \* *state == NULL: free(state); return 0
             [heap |-> freed, th |-> T, errno |-> errno, ret |-> 0]
        ELSE IF T[u].pc # "select"
        THEN \* a pointer to a frame that has returned (met only through a
             \* freed cell): the writes land in dead stack
             [heap |-> freed, th |-> T, errno |-> o.errno, ret |-> o.ret]
        ELSE [heap |-> freed,
              th |-> [T EXCEPT ![u].waiting = FALSE, ![u].pdu = o.pdu,
                               ![u].status = o.status, ![u].ended = cbop,
                               ![u].endreq = reqid,
                               ![u].cloned = IF o.pdu.null THEN @ ELSE @ + 1],
              errno |-> o.errno, ret |-> o.ret]

(***************************************************************************)
(* Snmp_op.  A thread runs it holding the interpreter lock, which it gives *)
(* up only around select(): from the call to the first select(), and from  *)
(* the return of one select() to the next (or to the return of Snmp_op),   *)
(* it runs as one step.                                                    *)
(***************************************************************************)
\* the record of a call that returns in this step: its request, the event
\* that ended its wait and the request the event was about
Log(t) ==
    done' = IF th[t].pc = "select" /\ th'[t].pc = "idle"
            THEN done \cup {[reqid |-> th'[t].reqid, ended |-> th'[t].ended,
                             endreq |-> th'[t].endreq]}
            ELSE done

\* the rest of Snmp_op once the wait loop has ended: the frame on return
Return(f, errno) ==
    LET a == AnswerRun(AnswerStart(f.op, Len(f.args), f.status, errno, f.pdu),
                       bulk_max_repetitions)
    IN  [f EXCEPT !.pc = "idle", !.hstate = 0, !.waiting = FALSE,
                  !.status = STAT_SUCCESS, !.pdu = NULLPDU,
                  !.result = a.ret, !.freed = a.freed]

\* the test of the wait loop after an event was handled
Resume(t, T, errno) ==
    IF T[t].waiting THEN T ELSE [T EXCEPT ![t] = Return(T[t], errno)]

\* a call of get/getnext/getbulk/set, up to its first select() or its return
Snmp_op(t, op, args, c, allocOK, sendOK) ==
    /\ fault # "crash"
    /\ th[t].pc = "idle"
    /\ LET chk == ArgumentChecks(op, args, version)
           add == AddArguments(op, args, 1)
           f == [IdleFrame EXCEPT !.op = op, !.args = args]
           id == calls + 1
       IN  IF chk.exc # ""
           THEN /\ th' = [th EXCEPT ![t] = [f EXCEPT !.result = chk]]
                /\ UNCHANGED << s_snmp_errno, requests, wire, heap, calls >>
           ELSE IF add.exc # ""
           THEN /\ th' = [th EXCEPT ![t] = [f EXCEPT !.built = TRUE,
                                                      !.result = add]]
                /\ UNCHANGED << s_snmp_errno, requests, wire, heap, calls >>
           ELSE IF ~allocOK
           THEN /\ th' = [th EXCEPT ![t] =
                            [f EXCEPT !.built = TRUE,
                                      !.result = Raised("MemoryError", "", 0)]]
                /\ UNCHANGED << s_snmp_errno, requests, wire, heap, calls >>
           ELSE /\ calls < MaxOps
                /\ ~heap[c].live
                /\ calls' = id
                /\ IF ~sendOK
                   THEN \* snmp_sess_async_send returned 0: operror, where
                        \* *hstate = NULL and the PDU is freed
                        /\ heap' = [heap EXCEPT ![c] = [live |-> TRUE, ptr |-> 0]]
                        /\ s_snmp_errno' = SNMPERR_BAD_SENDTO
                        /\ th' = [th EXCEPT ![t] =
                                    [f EXCEPT !.built = TRUE,
                                              !.result = Snmp_raise_error(
                                                             SNMPERR_BAD_SENDTO)]]
                        /\ UNCHANGED << requests, wire >>
                   ELSE /\ heap' = [heap EXCEPT ![c] = [live |-> TRUE, ptr |-> t]]
                        /\ requests' = requests \cup
                              {[reqid |-> id, pdu |-> id, retries |-> 0,
                                magic |-> c]}
                        /\ wire' = wire \cup {[reqid |-> id, pdu |-> id, n |-> 0]}
                        /\ th' = [th EXCEPT ![t] =
                                    [f EXCEPT !.pc = "select", !.built = TRUE,
                                              !.sent = TRUE, !.reqid = id,
                                              !.hstate = c, !.waiting = TRUE]]
                        /\ UNCHANGED s_snmp_errno
    /\ UNCHANGED << version, retries, bulk_non_repeaters, bulk_max_repetitions,
                    done, fault, ans, apart >>

\* the library calls the callback of request rq; `always` says the library
\* drops the request whatever the callback returns.  Callback data that was
\* freed is a dangling pointer: the read of it either ends the process or
\* yields what the cell still holds.
Deliver(t, cbop, rq, pdu, always) ==
    LET cb == Snmp_handle_answer(cbop, rq.reqid, pdu, rq.magic, heap, th,
                                 s_snmp_errno)
        left == IF always \/ cb.ret = 1 THEN requests \ {rq} ELSE requests
    IN  IF heap[rq.magic].live
        THEN /\ heap' = cb.heap
             /\ s_snmp_errno' = cb.errno
             /\ requests' = left
             /\ th' = Resume(t, cb.th, cb.errno)
             /\ fault' = fault
        ELSE \/ /\ fault' = "crash"
                /\ UNCHANGED << heap, s_snmp_errno, requests, th >>
             \/ /\ fault' = "uaf"
                /\ heap' = cb.heap
                /\ s_snmp_errno' = cb.errno
                /\ requests' = left
                /\ th' = Resume(t, cb.th, cb.errno)

\* select() > 0 and snmp_sess_read: a message that bears the request-id of
\* the pending request rq is read (one that bears another id is dropped)
SessRead(t, rq, msg) ==
    /\ fault # "crash"
    /\ th[t].pc = "select"
    /\ rq \in requests
    /\ Deliver(t, NETSNMP_CALLBACK_OP_RECEIVED_MESSAGE, rq, msg, FALSE)
    /\ Log(t)
    /\ UNCHANGED << version, retries, bulk_non_repeaters, bulk_max_repetitions,
                    wire, calls, ans, apart >>

\* select() = 0 and snmp_sess_timeout: the deadline of request rq has passed
SessTimeout(t, rq) ==
    /\ fault # "crash"
    /\ th[t].pc = "select"
    /\ rq \in requests
    /\ IF ~GivenUp(rq, retries)
       THEN /\ requests' = (requests \ {rq}) \cup
                               {[rq EXCEPT !.retries = rq.retries + 1]}
            /\ wire' = wire \cup {Retransmission(rq)}
            /\ th' = Resume(t, th, s_snmp_errno)
            /\ UNCHANGED << heap, s_snmp_errno, fault >>
       ELSE /\ Deliver(t, NETSNMP_CALLBACK_OP_TIMED_OUT, rq, NULLPDU, TRUE)
            /\ UNCHANGED wire
    /\ Log(t)
    /\ UNCHANGED << version, retries, bulk_non_repeaters, bulk_max_repetitions,
                    calls, ans, apart >>

\* select() = 0 when another thread has handled what this one waited for
SessTimeoutNone(t) ==
    /\ fault # "crash"
    /\ th[t].pc = "select"
    /\ ~th[t].waiting
    /\ th' = Resume(t, th, s_snmp_errno)
    /\ Log(t)
    /\ UNCHANGED << version, retries, bulk_non_repeaters, bulk_max_repetitions,
                    s_snmp_errno, requests, wire, heap, calls, fault, ans, apart >>

\* the library tells the callback of the pending request rq that the peer is
\* gone (NETSNMP_CALLBACK_OP_DISCONNECT)
SessDisconnect(t, rq) ==
    /\ fault # "crash"
    /\ th[t].pc = "select"
    /\ rq \in requests
    /\ Deliver(t, NETSNMP_CALLBACK_OP_DISCONNECT, rq, NULLPDU, FALSE)
    /\ Log(t)
    /\ UNCHANGED << version, retries, bulk_non_repeaters, bulk_max_repetitions,
                    wire, calls, ans, apart >>

\* the library calls the callback of the pending request rq with an event
\* that is none of message-received, timed-out and disconnect
SessOther(t, rq) ==
    /\ fault # "crash"
    /\ th[t].pc = "select"
    /\ rq \in requests
    /\ Deliver(t, NETSNMP_CALLBACK_OP_SEND_FAILED, rq, NULLPDU, FALSE)
    /\ Log(t)
    /\ UNCHANGED << version, retries, bulk_non_repeaters, bulk_max_repetitions,
                    wire, calls, ans, apart >>

\* an early exit from the wait loop through operror: *hstate = NULL, then
\* the return with the exception that was set
EarlyExit(t, exception, how) ==
    /\ fault # "crash"
    /\ th[t].pc = "select"
    /\ IF heap[th[t].hstate].live
       THEN /\ heap' = [heap EXCEPT ![th[t].hstate].ptr = 0]
            /\ fault' = fault
       ELSE \* the callback has freed the cell: a write to freed memory;
            \* the local `response` is still NULL here, whatever state.pdu
            \* holds, and nothing of it is freed
            /\ heap' = heap
            /\ fault' = "uaf"
    /\ th' = [th EXCEPT ![t] =
                [@ EXCEPT !.pc = "idle", !.hstate = 0, !.waiting = FALSE,
                          !.status = STAT_SUCCESS, !.pdu = NULLPDU,
                          !.ended = how, !.endreq = 0, !.result = exception]]
    /\ Log(t)

\* select() = -1 with EINTR, and PyErr_CheckSignals() reports an exception
Interrupt(t) ==
    /\ EarlyExit(t, Raised("KeyboardInterrupt", "", 0), "signal")
    /\ UNCHANGED << version, retries, bulk_non_repeaters, bulk_max_repetitions,
                    s_snmp_errno, requests, wire, calls, ans, apart >>

\* select() = -1 with another errno
SelectError(t) ==
    /\ EarlyExit(t, Raised("IOError", "errno", 0), "errno")
    /\ UNCHANGED << version, retries, bulk_non_repeaters, bulk_max_repetitions,
                    s_snmp_errno, requests, wire, calls, ans, apart >>

(***************************************************************************)
(* The inputs: what callers pass and what the peer sends.                  *)
(***************************************************************************)
Binding(i, type) == [name |-> <<i>>, type |-> type, val |-> i]

Tags == {ASN_INTEGER, ASN_NULL, SNMP_NOSUCHOBJECT, SNMP_NOSUCHINSTANCE,
         SNMP_ENDOFMIBVIEW}
Sentinels == {SNMP_NOSUCHOBJECT, SNMP_NOSUCHINSTANCE, SNMP_ENDOFMIBVIEW}

\* the binding lists of length n over a set of types
VarLists(n, types) ==
    {[i \in 1..n |-> Binding(i, f[i])] : f \in [1..n -> types]}

\* the operations callers use in the session model (the wait is the same for
\* the four) and what they pass
SessionOps == {SNMP_MSG_GET, SNMP_MSG_SET}
ArgLists == { << PyOid(1, 9) >>, << PyOid(1, 9), PyValue >> }

\* what callers pass in the model of one call's arguments
AllArgLists ==
    { <<>>,
      << PyOid(1, 9) >>,
      << PyStr >>,
      << PyBadOid(9) >>,
      << PyOid(1, MAX_OID_LEN + 1) >>,
      << PyOid(1, 9), PyOid(2, 9) >>,
      << PyOid(1, 9), PyValue >>,
      << PyOid(1, 9), PyStr >>,
      << PyOid(1, 9), PyValue, PyOid(2, 9) >>,
      << PyOid(1, 9), PyValue, PyOid(2, 9), PyValue >>,
      << PyOid(1, 9), PyValue, PyBadOid(9), PyValue >>,
      << PyOid(1, 9), PyValue, PyOid(2, 9), PyStr >>,
      << PyNegOid(9) >>,
      << PyOid(1, 9), PyNegOid(9) >> }

\* what the peer sends in the session model
Messages ==
    {Pdu(SNMP_MSG_REPORT, SNMP_ERR_NOERROR, <<>>),
     Pdu(SNMP_MSG_RESPONSE, SNMP_ERR_TOOBIG, <<>>)}
    \cup {Pdu(SNMP_MSG_RESPONSE, SNMP_ERR_NOERROR, vl) :
            vl \in VarLists(1, {ASN_INTEGER})}

(***************************************************************************)
(* The session: one thread calls (Spec), or two threads call (SpecThreads) *)
(* the operations of one Session.                                          *)
(***************************************************************************)
Versions == {SNMP_VERSION_1, SNMP_VERSION_2c, SNMP_VERSION_3}

\* the Session after Snmp_init succeeded, for a version among `versions`
SessionInit(versions) ==
    /\ version \in versions
    /\ retries \in 0..MaxRetries
    /\ bulk_non_repeaters = DefaultBulkNonRepeaters
    /\ bulk_max_repetitions = DefaultBulkMaxRepetitions
    /\ s_snmp_errno = SNMPERR_SUCCESS
    /\ requests = {}
    /\ wire = {}
    /\ heap = [c \in Cells |-> FreeCell]
    /\ th = [t \in Threads |-> IdleFrame]
    /\ calls = 0
    /\ done = {}
    /\ fault = "none"

Init == SessionInit({SNMP_VERSION_2c}) /\ ans = NoAnswer /\ ApartIdle

\* the cells calloc() may return that differ for what follows: the free
\* cells a pending request still points to, and one of the others
Allocatable ==
    LET free == {c \in Cells : ~heap[c].live}
        dangling == {c \in free : \E rq \in requests : rq.magic = c}
        others == free \ dangling
    IN  dangling \cup {c \in others : \A d \in others : c <= d}

\* the inputs a call does not read are not varied
Read_inputs(op, args, c, allocOK, sendOK) ==
    IF ArgumentChecks(op, args, version).exc # ""
       \/ AddArguments(op, args, 1).exc # ""
    THEN c = 1 /\ allocOK /\ sendOK
    ELSE IF ~allocOK THEN c = 1 /\ sendOK
    ELSE c \in Allocatable

Call(t, ops, arglists) ==
    \E op \in ops, args \in arglists, c \in Cells,
       allocOK \in BOOLEAN, sendOK \in BOOLEAN :
        /\ Read_inputs(op, args, c, allocOK, sendOK)
        /\ Snmp_op(t, op, args, c, allocOK, sendOK)

Read(t, msgs) == \E rq \in requests, msg \in msgs : SessRead(t, rq, msg)

Timeout(t) == \E rq \in requests : SessTimeout(t, rq)

Disconnect(t) == \E rq \in requests : SessDisconnect(t, rq)

Other(t) == \E rq \in requests : SessOther(t, rq)

Next ==
    \/ Call(1, SessionOps, ArgLists)
    \/ Read(1, Messages)
    \/ Timeout(1)
    \/ Disconnect(1)
    \/ Interrupt(1)
    \/ SelectError(1)

Spec == Init /\ [][Next]_vars

\* time passes: a deadline that has been set expires
FairSpec == Spec /\ WF_vars(Timeout(1))

\* two threads call get() on the Session, and the peer answers
NextThreads ==
    \E t \in Threads :
        \/ Call(t, {SNMP_MSG_GET}, {<< PyOid(1, 9) >>})
        \/ Read(t, {Pdu(SNMP_MSG_RESPONSE, SNMP_ERR_NOERROR,
                        << Binding(1, ASN_INTEGER) >>)})
        \/ Timeout(t)
        \/ SessTimeoutNone(t)
        \/ Interrupt(t)

SpecThreads == Init /\ [][NextThreads]_vars

\* one call with any arguments, up to its first select() or its return
NextArgs == Call(1, Ops, AllArgLists)

InitArgs == SessionInit(Versions) /\ ans = NoAnswer /\ ApartIdle

SpecArgs == InitArgs /\ [][NextArgs]_vars

(***************************************************************************)
(* After an early exit (SpecStale): a call of get() has sent its request   *)
(* and has left the wait on a signal or on an error of select(), through   *)
(* operror; its request is still pending in the library, with the cell     *)
(* whose content operror has set to NULL.  The calls that follow are       *)
(* numbered from 1; the request left behind has the id StaleId.            *)
(***************************************************************************)
StaleId == MaxOps + 1

StaleFrame(exception, how) ==
    [IdleFrame EXCEPT !.op = SNMP_MSG_GET, !.args = << PyOid(1, 9) >>,
                      !.reqid = StaleId, !.built = TRUE, !.sent = TRUE,
                      !.ended = how, !.result = exception]

StaleInit ==
    /\ version = SNMP_VERSION_2c
    /\ retries \in 0..MaxRetries
    /\ bulk_non_repeaters = DefaultBulkNonRepeaters
    /\ bulk_max_repetitions = DefaultBulkMaxRepetitions
    /\ s_snmp_errno = SNMPERR_SUCCESS
    /\ requests = {[reqid |-> StaleId, pdu |-> StaleId, retries |-> 0,
                    magic |-> 1]}
    /\ wire = {[reqid |-> StaleId, pdu |-> StaleId, n |-> 0]}
    /\ heap = [c \in Cells |->
                 IF c = 1 THEN [live |-> TRUE, ptr |-> 0] ELSE FreeCell]
    /\ calls = 0
    /\ fault = "none"
    /\ \E e \in { << Raised("KeyboardInterrupt", "", 0), "signal" >>,
                  << Raised("IOError", "errno", 0), "errno" >> } :
         /\ th = [t \in Threads |->
                    IF t = 1 THEN StaleFrame(e[1], e[2]) ELSE IdleFrame]
         /\ done = {[reqid |-> StaleId, ended |-> e[2], endreq |-> 0]}
    /\ ans = NoAnswer
    /\ ApartIdle

NextStale ==
    \/ Call(1, {SNMP_MSG_GET}, {<< PyOid(1, 9) >>})
    \/ Read(1, {Pdu(SNMP_MSG_RESPONSE, SNMP_ERR_NOERROR,
                    << Binding(1, ASN_INTEGER) >>)})
    \/ Timeout(1)

SpecStale == StaleInit /\ [][NextStale]_vars

(***************************************************************************)
(* The events of the wait (SpecEvents): one thread calls get(), and the    *)
(* library tells the callback of a pending request of a message, of a      *)
(* time-out or of another event.                                           *)
(***************************************************************************)
NextEvents ==
    \/ Call(1, {SNMP_MSG_GET}, {<< PyOid(1, 9) >>})
    \/ Read(1, Messages)
    \/ Timeout(1)
    \/ Other(1)

SpecEvents == Init /\ [][NextEvents]_vars

(***************************************************************************)
(* The handling of one answer (SpecAnswer): the wait loop of a call has    *)
(* ended with a status and a response, and Snmp_op runs to its return.     *)
(***************************************************************************)
\* the calls whose answer is handled: operation, number of arguments and
\* the Session's bulk_max_repetitions
AnswerCalls ==
    { <<SNMP_MSG_GET, 1, DefaultBulkMaxRepetitions>>,
      <<SNMP_MSG_GET, 2, DefaultBulkMaxRepetitions>>,
      <<SNMP_MSG_GETNEXT, 1, DefaultBulkMaxRepetitions>>,
      <<SNMP_MSG_SET, 2, DefaultBulkMaxRepetitions>>,
      <<SNMP_MSG_GETBULK, 1, 2>>,
      <<SNMP_MSG_GETBULK, 2, 2>>,
      <<SNMP_MSG_GETBULK, 1, 10>> }

\* what the callback left in state.status, the session's error and state.pdu;
\* binding i of a response is named after OID i of the request, but for one
\* response that names its two bindings in the other order
Answers ==
    { <<STAT_TIMEOUT, SNMPERR_TIMEOUT, NULLPDU>>,
      <<STAT_ERROR, SNMPERR_ABORT, NULLPDU>>,
      <<STAT_ERROR, SNMPERR_PROTOCOL, NULLPDU>> }
    \cup { <<STAT_SUCCESS, SNMPERR_SUCCESS, Pdu(SNMP_MSG_RESPONSE, e, vl)>> :
              e \in (-1)..MaxErrstat, vl \in VarLists(1, {ASN_INTEGER}) }
    \cup { <<STAT_SUCCESS, SNMPERR_SUCCESS,
             Pdu(SNMP_MSG_RESPONSE, SNMP_ERR_NOERROR, vl)>> :
              vl \in UNION {VarLists(n, Tags) : n \in 0..MaxVars} }
    \cup { <<STAT_SUCCESS, SNMPERR_SUCCESS,
             Pdu(SNMP_MSG_RESPONSE, SNMP_ERR_NOERROR,
                 << Binding(2, ASN_INTEGER), Binding(1, ASN_INTEGER) >>)>> }
    \cup { <<STAT_SUCCESS, SNMPERR_SUCCESS,
             Pdu(SNMP_MSG_RESPONSE, SNMP_ERR_NOERROR, vl)>> :
              vl \in { << Binding(1, ASN_OPAQUE) >>,
                       << Binding(1, ASN_INTEGER), Binding(2, ASN_OPAQUE) >>,
                       << Binding(1, ASN_OPAQUE), Binding(2, ASN_NULL) >> } }

InitAnswer ==
    /\ version = SNMP_VERSION_2c
    /\ retries = 0
    /\ bulk_non_repeaters = DefaultBulkNonRepeaters
    /\ s_snmp_errno = SNMPERR_SUCCESS
    /\ requests = {}
    /\ wire = {}
    /\ heap = [c \in Cells |-> FreeCell]
    /\ th = [t \in Threads |-> IdleFrame]
    /\ calls = 0
    /\ done = {}
    /\ fault = "none"
    /\ \E k \in AnswerCalls, a \in Answers :
         /\ bulk_max_repetitions = k[3]
         /\ ans = AnswerStart(k[1], k[2], a[1], a[2], a[3])
    /\ ApartIdle

NextAnswer ==
    /\ ans.phase \in {"answer", "loop"}
    /\ ans' = AnswerStep(ans, bulk_max_repetitions)
    /\ UNCHANGED << version, retries, bulk_non_repeaters, bulk_max_repetitions,
                    s_snmp_errno, requests, wire, heap, th, calls, done,
                    fault, apart >>

SpecAnswer == InitAnswer /\ [][NextAnswer]_vars

(***************************************************************************)
(* Properties of the session (Spec, FairSpec, SpecThreads).                *)
(***************************************************************************)
\* the transmissions made of the request with id r
Transmissions(r) == {w \in wire : w.reqid = r}

\* the calls that returned because their own request timed out
TimedOut ==
    {d \in done : d.ended = NETSNMP_CALLBACK_OP_TIMED_OUT /\ d.endreq = d.reqid}

\* the requests of the calls that a signal ended
Cancelled == {d.reqid : d \in {e \in done : e.ended = "signal"}}

\* C1: a call whose wait is ended by the time-out of its own request (no
\* matching response was read) raises the time-out error, and it does so
\* when the request has been transmitted retries+1 times; the request is
\* then gone from the pending list and stays gone, and the thread is back
\* out of Snmp_op, where it can call again.
C1_TimeoutThenUsable ==
    /\ \A d \in TimedOut :
          /\ Pending(d.reqid) = {}
          /\ {w.n : w \in Transmissions(d.reqid)} = 0..retries
    /\ LET f == th[1]
       IN  (/\ f.pc = "idle"
            /\ f.ended = NETSNMP_CALLBACK_OP_TIMED_OUT
            /\ f.endreq = f.reqid)
           => /\ f.result = Snmp_raise_error(SNMPERR_TIMEOUT)
              /\ f.hstate = 0
              /\ ~f.waiting

\* a call timed out after retransmissions, and a later call on the Session
\* was sent, read its own response and returned values
C1_Witness ==
    \E d \in TimedOut :
        /\ retries >= 1
        /\ th[1].pc = "idle"
        /\ th[1].reqid > d.reqid
        /\ th[1].ended = NETSNMP_CALLBACK_OP_RECEIVED_MESSAGE
        /\ th[1].endreq = th[1].reqid
        /\ th[1].result.exc = ""
        /\ Len(th[1].result.vals) = 1

\* C2: after a cancellation the Session is intact (the library holds no
\* freed callback data for the cancelled request, and no memory error has
\* followed from it) and no later call is ended by an event of the cancelled
\* request.
C2_CancelKeepsSession ==
    /\ \A rq \in requests : rq.reqid \in Cancelled => heap[rq.magic].live
    /\ \A d \in done : d.endreq \notin Cancelled

\* C3: at most one thread is inside the request/response cycle of the
\* Session at a time.
C3_SingleFlight ==
    Cardinality({t \in Threads : th[t].pc = "select"}) <= 1

\* what has been transmitted respects the retry budget and repeats the PDU
C4_Budget ==
    /\ \A w \in wire : w.n \in 0..retries
    /\ \A r \in 1..MaxOps : Cardinality(Transmissions(r)) <= retries + 1
    /\ \A v \in wire, w \in wire : v.reqid = w.reqid => v.pdu = w.pdu
    /\ \A rq \in requests :
          {w.n : w \in Transmissions(rq.reqid)} = 0..rq.retries

\* C4: all the transmissions of a request carry the same PDU under the same
\* request-id, each expiry so far has made one, they are never more than
\* retries+1, and a call that waits always leaves the wait (it returns, or
\* the process has died of a memory error).
C4_RetransmitBounded ==
    /\ []C4_Budget
    /\ (th[1].pc = "select") ~> (th[1].pc = "idle" \/ fault = "crash")

\* a request was transmitted retries+1 times, with a retry, and its call
\* has returned on the time-out
C4_Witness ==
    /\ retries >= 1
    /\ th[1].pc = "idle"
    /\ th[1].ended = NETSNMP_CALLBACK_OP_TIMED_OUT
    /\ th[1].endreq = th[1].reqid
    /\ Cardinality(Transmissions(th[1].reqid)) = retries + 1

\* C5: the call returns in the step in which the callback is told of the
\* disconnect of its request, with the abort error and not the time-out
\* error, and the request is gone from the pending list: no retry of it
\* follows.
C5_DisconnectAborts ==
    LET f == th[1]
    IN  /\ f.pc = "select" => f.ended = ""
        /\ (/\ f.pc = "idle"
            /\ f.ended = NETSNMP_CALLBACK_OP_DISCONNECT
            /\ f.endreq = f.reqid)
           => /\ f.result = Snmp_raise_error(SNMPERR_ABORT)
              /\ f.result # Snmp_raise_error(SNMPERR_TIMEOUT)
              /\ Pending(f.reqid) = {}

\* a call was ended by a disconnect before any retry of its request was made,
\* with retries left
C5_Witness ==
    /\ retries >= 1
    /\ th[1].pc = "idle"
    /\ th[1].ended = NETSNMP_CALLBACK_OP_DISCONNECT
    /\ th[1].endreq = th[1].reqid
    /\ Cardinality(Transmissions(th[1].reqid)) = 1
    /\ th[1].result = Snmp_raise_error(SNMPERR_ABORT)

(***************************************************************************)
(* Properties of the arguments of a call (SpecArgs).                       *)
(***************************************************************************)
ArityError ==
    Raised("TypeError", "need an even number of arguments for SET operation", 0)

BulkError == Raised("SNMPException", "getbulk not supported in SNMPv1", 0)

\* C6: a step in which set() is called with an odd number of arguments ends
\* with the arity error, before the PDU is created and with nothing sent,
\* and it changes nothing of the Session.
C6_OddSetRejected ==
    [][ (th'[1].op = SNMP_MSG_SET /\ Len(th'[1].args) % 2 = 1)
        => /\ th'[1].pc = "idle"
           /\ th'[1].result = ArityError
           /\ ~th'[1].built
           /\ ~th'[1].sent
           /\ UNCHANGED << version, retries, bulk_non_repeaters,
                           bulk_max_repetitions, s_snmp_errno, requests, wire,
                           heap, calls >> ]_vars

\* set() was called with a valid pair followed by an OID without a value
C6_Witness ==
    /\ th[1].op = SNMP_MSG_SET
    /\ th[1].args = << PyOid(1, 9), PyValue, PyOid(2, 9) >>
    /\ th[1].result = ArityError

\* C7: on a version-1 Session a getbulk() call fails before the PDU is
\* created (with the getbulk error whenever it has an argument); on the
\* other versions it never fails with that error, and the PDU is created.
C7_BulkVersion ==
    LET f == th[1]
    IN  f.op = SNMP_MSG_GETBULK =>
          IF version = SNMP_VERSION_1
          THEN /\ f.pc = "idle"
               /\ f.result.exc # ""
               /\ ~f.built
               /\ ~f.sent
               /\ Len(f.args) >= 1 => f.result = BulkError
          ELSE /\ f.result # BulkError
               /\ Len(f.args) >= 1 => f.built

\* getbulk() with a valid OID was called on a version-1 Session
C7_Witness ==
    /\ version = SNMP_VERSION_1
    /\ th[1].op = SNMP_MSG_GETBULK
    /\ th[1].args = << PyOid(1, 9) >>
    /\ th[1].result = BulkError
    /\ wire = {}

\* argument j of a call of op is in the place of an OID / of a value
OidPlace(op, j) == op # SNMP_MSG_SET \/ j % 2 = 1
\* an argument list with an OID that is not a sequence of at most
\* MAX_OID_LEN non-negative integers, or with a value that is not a typed
\* value
InvalidArguments(op, args) ==
    \E j \in 1..Len(args) :
        IF OidPlace(op, j)
        THEN \/ args[j].kind # "tuple"
             \/ args[j].len > MAX_OID_LEN
             \/ ~args[j].ints
             \/ args[j].neg
        ELSE args[j].kind # "basictype"

\* C16: a call whose argument list has an invalid OID or an invalid value
\* at any place ends with an exception and nothing is transmitted.
C16_InvalidRejected ==
    LET f == th[1]
    IN  (f.op # "" /\ InvalidArguments(f.op, f.args))
        => /\ f.pc = "idle"
           /\ f.result.exc # ""
           /\ ~f.sent
           /\ wire = {}

\* a frame whose call has returned; through the label operror; with results
HasReturned(f) == f.pc = "idle" /\ f.op # ""
ThroughOperror(f) == HasReturned(f) /\ f.built /\ f.result.exc # ""
\* the value buffers a returned call has freed: those of free(buffer) when
\* it left through operror, none on the other paths
BuffersFreed(f) ==
    IF ThroughOperror(f) THEN FreeBuffer(f.op, f.args) ELSE {}
\* the request PDU of a returned call was freed by snmp_free_pdu(pdu) at
\* operror, where pdu is not NULL as long as it was not handed over
PduFreed(f) == ThroughOperror(f) /\ ~f.sent

\* C17: when a call has returned, its PDU, if one was created, was either
\* handed to the transport or freed, and not both, and every value buffer
\* allocated for a SET pair was freed.
C17_BuffersAccounted ==
    \A t \in Threads :
        HasReturned(th[t]) =>
            /\ th[t].built => (th[t].sent # PduFreed(th[t]))
            /\ BuffersFreed(th[t]) = ValueBuffers(th[t].op, th[t].args)

\* C18: when a call has returned, every response that was received for it
\* (cloned into its state.pdu) was freed, and freed once.
C18_ResponseFreedOnce ==
    \A t \in Threads :
        HasReturned(th[t]) => th[t].freed = th[t].cloned

\* the pending requests that hold cell c as their callback data
HeldBy(c) == {rq \in requests : rq.magic = c}

\* C24: no callback has read or freed a cell that was freed; the callback
\* data of every pending request is a cell that is still allocated, and of
\* that request alone, so that it is freed once; and every allocated cell
\* is the callback data of a pending request, so that it is freed at all
\* (after a failed send too, when no callback was registered).
C24_CellFreedOnce ==
    /\ fault = "none"
    /\ \A rq \in requests : heap[rq.magic].live
    /\ \A c \in Cells : Cardinality(HeldBy(c)) <= 1
    /\ \A c \in Cells : heap[c].live => HeldBy(c) # {}

\* the requests of the calls that left the wait early, on a signal or on an
\* error of select()
LeftEarly == {d.reqid : d \in {e \in done : e.ended \in {"signal", "errno"}}}

\* C25: no call is ended by an event of a request whose own call had
\* left the wait early, and no such event touches a call that waits.
C25_StaleIgnored ==
    /\ \A d \in done : d.endreq \notin LeftEarly
    /\ \A t \in Threads : th[t].pc = "select" => th[t].endreq \notin LeftEarly

(***************************************************************************)
(* Properties of the events of the wait (SpecEvents).                      *)
(***************************************************************************)
\* the step in which the callback of request rq is told of a message that
\* is not a response, or of an event that is none of the three it handles
UnexpectedEvent(rq) ==
    \/ \E msg \in Messages :
          /\ msg.command # SNMP_MSG_RESPONSE
          /\ SessRead(1, rq, msg)
    \/ SessOther(1, rq)

\* C26: when the callback of the request a call waits for is told of a
\* message that is not a response, or of an event other than a message, a
\* time-out or a disconnect, the call returns in that very step, and it
\* returns the protocol error, never values.
C26_UnexpectedRaises ==
    [][\A rq \in requests :
          (rq.reqid = th[1].reqid /\ UnexpectedEvent(rq))
          => /\ th'[1].pc = "idle"
             /\ th'[1].ended \in {NETSNMP_CALLBACK_OP_RECEIVED_MESSAGE,
                                  NETSNMP_CALLBACK_OP_SEND_FAILED}
             /\ th'[1].endreq = rq.reqid
             /\ th'[1].result = Snmp_raise_error(SNMPERR_PROTOCOL)
             /\ th'[1].result.exc # ""]_vars

\* a call was ended by a message for its request that was not a response,
\* after an earlier call was ended by another event of its own request
C26_Witness ==
    /\ fault = "none"
    /\ th[1].pc = "idle"
    /\ th[1].ended = NETSNMP_CALLBACK_OP_RECEIVED_MESSAGE
    /\ th[1].endreq = th[1].reqid
    /\ th[1].cloned = 0
    /\ th[1].result = Snmp_raise_error(SNMPERR_PROTOCOL)
    /\ \E d \in done : /\ d.ended = NETSNMP_CALLBACK_OP_SEND_FAILED
                       /\ d.endreq = d.reqid
                       /\ d.reqid # th[1].reqid

(***************************************************************************)
(* Properties of the handling of an answer (SpecAnswer).                   *)
(***************************************************************************)
\* the error kinds by error-status, 1 to 18
ErrorKinds ==
    << "SNMPTooBig", "SNMPNoSuchName", "SNMPBadValue", "SNMPReadonly",
       "SNMPGenerr", "SNMPNoAccess", "SNMPWrongType", "SNMPWrongLength",
       "SNMPWrongEncoding", "SNMPWrongValue", "SNMPNoCreation",
       "SNMPInconsistentValue", "SNMPResourceUnavailable", "SNMPCommitFailed",
       "SNMPUndoFailed", "SNMPAuthorizationError", "SNMPNotWritable",
       "SNMPInconsistentName" >>

\* a response was received and handled to the return of Snmp_op
Handled == ans.phase = "done" /\ ans.status = STAT_SUCCESS

\* C8: a response with a non-zero error-status raises the kind of that
\* status when it is one of the 18 of the table, the kinds being distinct and
\* none the generic one, and the generic exception with the status as its
\* number otherwise; no binding is returned.
C8_ErrorStatusMapped ==
    /\ \A i \in 1..Len(ErrorKinds), j \in 1..Len(ErrorKinds) :
          /\ SnmpErrorToException[i].name # "SNMPException"
          /\ i # j => SnmpErrorToException[i].name # SnmpErrorToException[j].name
    /\ (Handled /\ ans.response.errstat # SNMP_ERR_NOERROR)
       => /\ ans.ret.exc # ""
          /\ ans.ret.vals = <<>>
          /\ ans.results = <<>>
          /\ IF ans.response.errstat \in 1..Len(ErrorKinds)
             THEN /\ ans.ret.exc = ErrorKinds[ans.response.errstat]
                  /\ ans.ret.code = ans.response.errstat
             ELSE ans.ret = Raised("SNMPException", "unknown error",
                                   ans.response.errstat)

\* a response with the last status of the table has been handled
C8_Witness ==
    /\ Handled
    /\ ans.response.variables # <<>>
    /\ ans.response.errstat = SNMP_ERR_INCONSISTENTNAME
    /\ ans.ret.exc = "SNMPInconsistentName"

\* the positions of the sentinels among the bindings of the response
SentinelAt ==
    {i \in 1..Len(ans.response.variables) :
        ans.response.variables[i].type \in Sentinels}

FirstSentinel == CHOOSE i \in SentinelAt : \A k \in SentinelAt : i <= k

\* the error kind of each sentinel
SentinelKind(type) ==
    CASE type = SNMP_NOSUCHOBJECT -> "SNMPNoSuchObject"
      [] type = SNMP_NOSUCHINSTANCE -> "SNMPNoSuchInstance"
      [] type = SNMP_ENDOFMIBVIEW -> "SNMPEndOfMibView"

\* a response without error-status that holds a sentinel has been handled
HandledSentinel ==
    /\ Handled
    /\ ans.response.errstat = SNMP_ERR_NOERROR
    /\ SentinelAt # {}

C10_BulkKeepsBindings ==
    (/\ Handled
     /\ ans.op = SNMP_MSG_GETBULK
     /\ bulk_max_repetitions = 10
     /\ ans.response.errstat = SNMP_ERR_NOERROR
     /\ Len(ans.response.variables) = 5
     /\ \A i \in 1..4 : ans.response.variables[i].type = ASN_INTEGER
     /\ ans.response.variables[5].type = SNMP_ENDOFMIBVIEW)
    => /\ Len(ans.ret.vals) >= 4
       /\ \A i \in 1..4 :
             ans.ret.vals[i] = PyTuple_Pack(ans.response.variables[i].name,
                                            ans.response.variables[i].val)

\* the number of bindings of the request whose answer is handled
Requested == ans.nargs \div (IF ans.op = SNMP_MSG_SET THEN 2 ELSE 1)

\* a response without error-status was handled and Snmp_op returned a tuple
Succeeded ==
    /\ Handled
    /\ ans.response.errstat = SNMP_ERR_NOERROR
    /\ ans.ret.exc = ""

\* C11: a GET, GETNEXT or SET that succeeds returns as many pairs as the
\* request had bindings, each of them set, from a response of that many
\* bindings; a response with more bindings does not succeed.
C11_ExactCount ==
    (Handled /\ ans.op # SNMP_MSG_GETBULK
     /\ ans.response.errstat = SNMP_ERR_NOERROR)
    => /\ Len(ans.response.variables) > Requested => ans.ret.exc # ""
       /\ ans.ret.exc = ""
          => /\ Len(ans.ret.vals) = Requested
             /\ \A i \in 1..Len(ans.ret.vals) : ~ans.ret.vals[i].null

\* C12: the i-th pair of a successful GET or SET carries the i-th OID of the
\* request; the pairs of a successful GETNEXT or GETBULK are the bindings of
\* the response in their order.
C12_ResultOrder ==
    Succeeded =>
        \A i \in 1..Len(ans.ret.vals) :
            ~ans.ret.vals[i].null =>
                IF ans.op \in {SNMP_MSG_GET, SNMP_MSG_SET}
                THEN ans.ret.vals[i].oid = << i >>
                ELSE ans.ret.vals[i] =
                        PyTuple_Pack(ans.response.variables[i].name,
                                     ans.response.variables[i].val)

\* C13: a GETBULK whose response holds between one and max-repetitions
\* bindings for each requested OID, all of recognised types, succeeds, and
\* its result holds exactly the received bindings.
C13_BulkExact ==
    (/\ Handled
     /\ ans.op = SNMP_MSG_GETBULK
     /\ ans.response.errstat = SNMP_ERR_NOERROR
     /\ Len(ans.response.variables) \in 1..(ans.nargs * bulk_max_repetitions)
     /\ \A i \in 1..Len(ans.response.variables) :
           IsValueType(ans.response.variables[i].type))
    => /\ ans.ret.exc = ""
       /\ Len(ans.ret.vals) = Len(ans.response.variables)
       /\ \A i \in 1..Len(ans.ret.vals) :
             ans.ret.vals[i] = PyTuple_Pack(ans.response.variables[i].name,
                                            ans.response.variables[i].val)

\* the tags the switch knows: those it makes a value of, and the sentinels
RecognisedValues == {ASN_INTEGER, ASN_OCTET_STR}
Recognised == RecognisedValues \cup Sentinels

\* the positions of the bindings with a tag the switch does not know, the
\* first of them, and the error that names a tag
UnknownAt ==
    {i \in 1..Len(ans.response.variables) :
        ans.response.variables[i].type \notin Recognised}
FirstUnknown == CHOOSE i \in UnknownAt : \A k \in UnknownAt : i <= k
UnknownType(tag) == Raised("SNMPException", "unknown type returned", tag)

\* an answer without error status, with a binding of unknown tag, was handled
HandledUnknown ==
    /\ ans.phase = "done"
    /\ ans.status = STAT_SUCCESS
    /\ ans.response.errstat = SNMP_ERR_NOERROR
    /\ UnknownAt # {}

NextCounter64 == DecodeCounter64 /\ UNCHANGED << session, ans >>

Counter64Init ==
    SessionInit({SNMP_VERSION_2c}) /\ ans = NoAnswer /\ InitCounter64

SpecCounter64 == Counter64Init /\ [][NextCounter64]_vars

\* C14: the decoded value is high * 2^32 + low: its two lower 16-bit digits
\* are those of low and its two upper digits those of high.
C14_Counter64Value ==
    counter64.phase = "done" =>
        counter64.resultvalue = << counter64.low[1], counter64.low[2],
                                   counter64.high[1], counter64.high[2] >>

\* high = 1, low = 0 was decoded as 2^32, and high = low = 2^32 - 1 was
\* decoded too
C14_Witness ==
    /\ counter64.phase = "done"
    /\ counter64.high = << 1, 0 >>
    /\ counter64.low = << 0, 0 >>
    /\ counter64.resultvalue = << 0, 0, 1, 0 >>

(***************************************************************************)
(* The construction of a Session (SpecObject): Snmp_new, then one run of   *)
(* Snmp_init with any of the arguments below, in which at most one call    *)
(* into the library or the allocator fails.                                *)
(***************************************************************************)
Constructions ==
    [host : {"str", "other"},
     version : {2, 3, 0},
     community : {"none", "str", "other"},
     seclevel : {"none", "int"},
     secname : {"none", "str", "other"},
     authprotocol : {"none", "MD5", "bogus"},
     authpassword : {"none", "str", "other"},
     privprotocol : {"none", "DES", "bogus"},
     privpassword : {"none", "str", "other"}]

Failures ==
    {"", "community", "secname", "authpassword", "privpassword", "peername",
     "open"}

InitObject ==
    /\ counter64 = NoCounter64 /\ object = Snmp_new /\ setter = NoSetter
    /\ RestIdle

Construct ==
    /\ object.phase = "new"
    /\ \E a \in Constructions, fail \in Failures :
           object' = Snmp_init(a, fail)
    /\ UNCHANGED << counter64, setter, rest >>

NextObject == Construct /\ UNCHANGED << session, ans >>

ObjectInit == SessionInit({SNMP_VERSION_2c}) /\ ans = NoAnswer /\ InitObject

SpecObject == ObjectInit /\ [][NextObject]_vars

\* the arguments before the privacy password are accepted by Snmp_init
EarlierAccepted(a, fail) ==
    /\ a.host = "str" /\ a.version \in {1, 2, 3}
    /\ a.community # "other" /\ a.secname # "other"
    /\ fail \notin {"community", "secname", "authpassword"}
    /\ a.authprotocol \in {"none", "MD5", "SHA"}
    /\ a.authpassword \in {"none", "str"}
    /\ a.authpassword = "str" => a.authprotocol # "none"
    /\ a.privprotocol \in {"none", "DES", "AES", "AES128"}

PrivacyMessage ==
    "can't set a privacy password without a auth+privacy protocol"

C19_FailureReleases ==
    (object.phase = "done" /\ object.ret = -1)
    => /\ object.freed = object.duplicated
       /\ object.ss = "NULL"

\* the three strings were duplicated and snmp_sess_open failed
C19_Witness ==
    /\ object.phase = "done"
    /\ object.ret = -1
    /\ object.opened
    /\ object.duplicated = {"community", "secname", "peername"}
    /\ object.freed = {"community", "secname", "peername"}
    /\ object.ss = "NULL"

(***************************************************************************)
(* The tunables of a Session (SpecSetters): assignments and deletions of   *)
(* timeout and retries, on a build where long has 32 bits and on one       *)
(* where it has 64.                                                        *)
(***************************************************************************)
Longs ==
    { << 0, 0, 0, 0 >>, << 1, 0, 0, 0 >>, << 2, 0, 0, 0 >>,
      << MaxDigit, MaxDigit, MaxDigit, MaxDigit >>,
      << MaxDigit, HalfDigit - 1, 0, 0 >>,
      << 0, HalfDigit, 0, 0 >>,
      << 0, HalfDigit, MaxDigit, MaxDigit >>,
      << 0, 0, 1, 0 >>,
      << 1, 0, MaxDigit, MaxDigit >> }

\* the objects a caller can assign on a build
Values(build) ==
    {PyNULL, PyString, PyHuge}
    \cup {PyInt(d) : d \in {e \in Longs : FitsLong(e, build)}}
    \cup {PyLong(d) : d \in Longs}

InitSetters ==
    /\ counter64 = NoCounter64 /\ object = NoObject /\ RestIdle
    /\ \E build \in {2, 4} : setter = [NoSetter EXCEPT !.build = build]

Called(attr, value, r) ==
    [setter EXCEPT !.attr = attr, !.value = value, !.ret = r.ret,
                   !.exc = r.exc, !.msg = r.msg,
                   !.old = [retries |-> retries, timeout |-> setter.timeout]]

\* what the two setters leave alone
SettersKeep ==
    UNCHANGED << version, bulk_non_repeaters, bulk_max_repetitions,
                 s_snmp_errno, requests, wire, heap, th, calls, done, fault,
                 ans, counter64, object, rest >>

SetTimeout ==
    /\ \E value \in Values(setter.build) :
           LET r == Snmp_settimeout(value, setter.build)
           IN  /\ setter' = [Called("timeout", value, r) EXCEPT
                                !.timeout = IF r.ret = 0 THEN r.stored ELSE @]
               /\ UNCHANGED retries
    /\ SettersKeep

SetRetries ==
    /\ \E value \in Values(setter.build) :
           LET r == Snmp_setretries(value, setter.build)
           IN  /\ setter' = Called("retries", value, r)
               /\ retries' = IF r.ret = 0 THEN r.stored ELSE retries
    /\ SettersKeep

NextSetters == SetTimeout \/ SetRetries

SettersInit == SessionInit({SNMP_VERSION_2c}) /\ ans = NoAnswer /\ InitSetters

SpecSetters == SettersInit /\ [][NextSetters]_vars

\* C20: timeout is positive and retries is non-negative in every state, and
\* an assignment of a timeout that is not a positive integer, or of retries
\* that is not a non-negative integer, or a deletion of either, fails with
\* an exception and leaves both as they were.
C20_TunablesValid ==
    /\ Positive(setter.timeout)
    /\ retries >= 0
    /\ (/\ setter.attr = "timeout"
        /\ \/ setter.value.type \notin {"int", "long"}
           \/ ~setter.value.huge /\ ~Positive(setter.value.long))
       => /\ setter.ret = -1 /\ setter.exc # ""
          /\ setter.timeout = setter.old.timeout
          /\ retries = setter.old.retries
    /\ (/\ setter.attr = "retries"
        /\ \/ setter.value.type \notin {"int", "long"}
           \/ ~setter.value.huge /\ Negative(setter.value.long))
       => /\ setter.ret = -1 /\ setter.exc # ""
          /\ setter.timeout = setter.old.timeout
          /\ retries = setter.old.retries

(***************************************************************************)
(* The bulk settings of a Session (SpecBulk): assignments and deletions.   *)
(***************************************************************************)
BulkItems ==
    { PyInt(<< 0, 0, 0, 0 >>), PyInt(<< 1, 0, 0, 0 >>),
      PyInt(<< DefaultBulkMaxRepetitions, 0, 0, 0 >>),
      PyInt(<< MaxDigit, MaxDigit, MaxDigit, MaxDigit >>),
      PyString }

BulkSettings ==
    { PyNoTuple("NULL"), PyNoTuple("str"),
      PyTuple(<< PyInt(<< 1, 0, 0, 0 >>) >>),
      PyTuple(<< PyInt(<< 0, 0, 0, 0 >>), PyInt(<< 1, 0, 0, 0 >>),
                 PyInt(<< 1, 0, 0, 0 >>) >>) }
    \cup {PyTuple(<< a, b >>) : a \in BulkItems, b \in BulkItems}

SetBulkSettings ==
    /\ ~bulkset.crashed
    /\ \E settings \in BulkSettings :
           bulkset' = Snmp_setbulksettings(bulkset, settings)
    /\ UNCHANGED << session, ans, counter64, object, setter, getranges >>

NextBulk == SetBulkSettings

BulkInit ==
    /\ SessionInit({SNMP_VERSION_2c}) /\ ans = NoAnswer
    /\ counter64 = NoCounter64 /\ object = NoObject /\ setter = NoSetter
    /\ bulkset = NoBulkset /\ getranges = NoRanges

SpecBulk == BulkInit /\ [][NextBulk]_vars

\* a value is an integer object that is negative / that is not positive
NegativeItem(item) == item.type = "int" /\ Negative(item.long)
NonPositiveItem(item) == item.type = "int" /\ ~Positive(item.long)
UPositive(u) == u # << 0, 0 >>

\* an assignment that is not a pair of a non-negative and a positive integer
BadBulkSettings(settings) ==
    \/ settings.type # "tuple"
    \/ Len(settings.items) # 2
    \/ settings.items[1].type # "int" \/ NegativeItem(settings.items[1])
    \/ settings.items[2].type # "int" \/ NonPositiveItem(settings.items[2])

\* C21: a new Session has non-repeaters 0 and max-repetitions 40; in every
\* state max-repetitions is positive (non-repeaters, unsigned, is never
\* negative); and an assignment that is not a pair of a non-negative and a
\* positive integer fails with an exception and changes nothing.
C21_BulkSettingsValid ==
    /\ ~bulkset.called
       => /\ bulk_non_repeaters = 0 /\ bulk_max_repetitions = 40
          /\ bulkset.non_repeaters = << 0, 0 >>
          /\ bulkset.max_repetitions = << 40, 0 >>
    /\ UPositive(bulkset.max_repetitions)
    /\ (bulkset.called /\ BadBulkSettings(bulkset.settings))
       => /\ bulkset.ret = -1 /\ bulkset.exc # "" /\ ~bulkset.crashed
          /\ bulkset.non_repeaters = bulkset.old.non_repeaters
          /\ bulkset.max_repetitions = bulkset.old.max_repetitions

(***************************************************************************)
(* Calls on a Session without a channel (SpecClosed): self->ss is NULL     *)
(* after Snmp_new and after a Snmp_init that failed.  The library is given *)
(* the NULL handle: snmp_sess_session returns NULL for it,                 *)
(* snmp_sess_async_send returns 0 with the error SNMPERR_BAD_SESSION, and  *)
(* snmp_sess_error leaves its three results as they were.                  *)
(***************************************************************************)
PlainArguments ==
    [host |-> "str", version |-> 2, community |-> "str", seclevel |-> "none",
     secname |-> "none", authprotocol |-> "none", authpassword |-> "none",
     privprotocol |-> "none", privpassword |-> "none"]

\* the objects a caller can hold: made by Snmp_new alone, by a Snmp_init
\* that failed at the version or at snmp_sess_open, or by one that succeeded
Objects ==
    { Snmp_new,
      Snmp_init([PlainArguments EXCEPT !.version = 0], ""),
      Snmp_init(PlainArguments, "open"),
      Snmp_init(PlainArguments, "") }

\* Snmp_op when self->ss is NULL.  sptr is NULL: the test of sptr->version,
\* made for getbulk, ends the process.  Snmp_raise_error formats and frees
\* the string snmp_sess_error did not set: `garbage` says whether that
\* uninitialized pointer can be read and freed (an exception with whatever
\* it points to) or not (the process ends).
Snmp_op_NULL(t, op, args, c, allocOK, garbage) ==
    /\ fault # "crash"
    /\ th[t].pc = "idle"
    /\ LET add == AddArguments(op, args, 1)
           f == [IdleFrame EXCEPT !.op = op, !.args = args]
           returns(g) == th' = [th EXCEPT ![t] = g]
       IN  IF Len(args) < 1
           THEN /\ returns([f EXCEPT !.result =
                               Raised("TypeError", "not enough arguments", 0)])
                /\ UNCHANGED << s_snmp_errno, heap, calls, fault >>
           ELSE IF ArityCheck(op, args)
           THEN /\ returns([f EXCEPT !.result = ArityError])
                /\ UNCHANGED << s_snmp_errno, heap, calls, fault >>
           ELSE IF op = SNMP_MSG_GETBULK
           THEN /\ returns([f EXCEPT !.pc = "dead"])
                /\ fault' = "crash"
                /\ UNCHANGED << s_snmp_errno, heap, calls >>
           ELSE IF add.exc # ""
           THEN /\ returns([f EXCEPT !.built = TRUE, !.result = add])
                /\ UNCHANGED << s_snmp_errno, heap, calls, fault >>
           ELSE IF ~allocOK
           THEN /\ returns([f EXCEPT !.built = TRUE,
                                     !.result = Raised("MemoryError", "", 0)])
                /\ UNCHANGED << s_snmp_errno, heap, calls, fault >>
           ELSE /\ calls < MaxOps
                /\ ~heap[c].live
                /\ calls' = calls + 1
                /\ heap' = [heap EXCEPT ![c] = [live |-> TRUE, ptr |-> 0]]
                /\ s_snmp_errno' = SNMPERR_BAD_SESSION
                /\ IF garbage
                   THEN /\ returns([f EXCEPT !.built = TRUE,
                                             !.result = Raised("SNMPException",
                                                               "garbage", 0)])
                        /\ fault' = "uninitialized"
                   ELSE /\ returns([f EXCEPT !.pc = "dead", !.built = TRUE])
                        /\ fault' = "crash"
    /\ UNCHANGED << version, retries, bulk_non_repeaters, bulk_max_repetitions,
                    requests, wire, done, ans, apart >>

\* a call of one of the four methods on the object, which has no channel
ClosedCall(t) ==
    /\ object.phase \in {"new", "done"}
    /\ object.ss = "NULL"
    /\ \E op \in Ops, args \in AllArgLists, c \in Cells,
          allocOK \in BOOLEAN, garbage \in BOOLEAN :
           /\ c \in Allocatable \/ (Allocatable = {} /\ c = 1)
           /\ Snmp_op_NULL(t, op, args, c, allocOK, garbage)

\* the last reference to the object goes: Snmp_dealloc closes the channel,
\* if there is one, and frees the object
Snmp_dealloc ==
    /\ fault # "crash"
    /\ object.phase \in {"new", "done"}
    /\ \A t \in Threads : th[t].pc = "idle"
    /\ object' = [object EXCEPT !.phase = "dead", !.ss = "NULL"]
    /\ UNCHANGED << session, ans, counter64, setter, rest >>

NextClosed == ClosedCall(1) \/ Snmp_dealloc

ClosedInit ==
    /\ SessionInit({SNMP_VERSION_2c}) /\ ans = NoAnswer
    /\ counter64 = NoCounter64 /\ setter = NoSetter /\ RestIdle
    /\ object \in Objects

SpecClosed == ClosedInit /\ [][NextClosed]_vars

\* C23: a call on a Session whose channel was never opened returns with an
\* exception: the process does not end, nothing uninitialized is read, and
\* the library is not asked to send on the missing channel.
C23_ClosedFails ==
    \A t \in Threads :
        (object.ss = "NULL" /\ th[t].op # "")
        => /\ fault = "none"
           /\ HasReturned(th[t])
           /\ th[t].result.exc # ""
           /\ s_snmp_errno # SNMPERR_BAD_SESSION

(***************************************************************************)
(* The ranges of an entity (SpecRanges): entity_getranges is called on an  *)
(* entity and runs, one turn of its loop after the other.                  *)
(***************************************************************************)
MaxRanges == 2

\* the bounds of the ranges: two values of each integer base type, and a
\* value of another base type
RangeValues(basetype) ==
    IF basetype \in {SMI_BASETYPE_INTEGER32, SMI_BASETYPE_INTEGER64}
    THEN {SmiValue(basetype, -1), SmiValue(basetype, 1)}
    ELSE IF basetype \in {SMI_BASETYPE_UNSIGNED32, SMI_BASETYPE_UNSIGNED64}
    THEN {SmiValue(basetype, 1), SmiValue(basetype, 2)}
    ELSE {SmiValue(basetype, 0)}

BaseTypes ==
    {SMI_BASETYPE_INTEGER32, SMI_BASETYPE_UNSIGNED32, SMI_BASETYPE_INTEGER64,
     SMI_BASETYPE_UNSIGNED64, SMI_BASETYPE_OCTETSTRING}

\* the ranges: both bounds of one base type, the minimum not above the
\* maximum; and a range with one bound of another base type
Ranges ==
    {SmiRange(lo, hi) :
        <<lo, hi>> \in {p \in UNION {RangeValues(b) \X RangeValues(b) :
                                        b \in BaseTypes} :
                           p[1].value <= p[2].value}}
    \cup {SmiRange(SmiValue(SMI_BASETYPE_INTEGER32, 1),
                   SmiValue(SMI_BASETYPE_OCTETSTRING, 0)),
          SmiRange(SmiValue(SMI_BASETYPE_OCTETSTRING, 0),
                   SmiValue(SMI_BASETYPE_UNSIGNED32, 2))}

RangeLists == UNION {[1..n -> Ranges] : n \in 0..MaxRanges}

Entities ==
    {NoEntity, Entity(TRUE, FALSE, << >>)}
    \cup {Entity(TRUE, TRUE, l) : l \in RangeLists}

GetRanges ==
    /\ getranges.pc = "idle"
    /\ getranges' = entity_getranges(getranges)
    /\ UNCHANGED << session, ans, counter64, object, setter, bulkset >>

Turn ==
    /\ getranges.pc = "loop"
    /\ getranges' = RangeTurn(getranges)
    /\ UNCHANGED << session, ans, counter64, object, setter, bulkset >>

NextRanges == GetRanges \/ Turn

RangesInit ==
    /\ SessionInit({SNMP_VERSION_2c}) /\ ans = NoAnswer
    /\ counter64 = NoCounter64 /\ object = NoObject /\ setter = NoSetter
    /\ bulkset = NoBulkset
    /\ \E e \in Entities : getranges = [NoRanges EXCEPT !.entity = e]

\* the call, once made, runs on
SpecRanges == RangesInit /\ [][NextRanges]_vars /\ WF_vars(NextRanges)

\* whether both bounds of a range have an integer base type
IntegerRange(r) ==
    /\ r.minValue.basetype # SMI_BASETYPE_OCTETSTRING
    /\ r.maxValue.basetype # SMI_BASETYPE_OCTETSTRING

RECURSIVE Couples(_)
\* the pairs of the ranges with integer bounds, in the order of the ranges
Couples(ranges) ==
    IF ranges = << >> THEN << >>
    ELSE LET r == Head(ranges)
             c == IF IntegerRange(r)
                  THEN << Couple(RangeBound(r.minValue),
                                 RangeBound(r.maxValue)) >>
                  ELSE << >>
         IN  c \o Couples(Tail(ranges))

\* C27: every call of entity_getranges returns, whatever the ranges of the
\* entity, and what it returns is made of the ranges with integer bounds,
\* in their order: a range with a bound of another base type is skipped.
C27_RangesTerminate ==
    <>(/\ getranges.pc = "done"
       /\ getranges.ret = RangesResult(Couples(getranges.entity.ranges)))

====
